---- MODULE Spec2Model ----
(***************************************************************************)
(* Model of the Instagram DM outreach bot: the candidate selector          *)
(* (databaseLoader.js, sheetsManager.js) and the run loop with its         *)
(* per-target state machine (main.js, messageDrafter.js).                  *)
(***************************************************************************)
EXTENDS Integers, Sequences, FiniteSets, TLC

VARIABLES
  sheet,          \* the data rows of the Google Sheet (row 1, the header, is left out)
  config,         \* the configuration read from the environment
  dryRun,         \* process.argv.includes('--dry-run')
  processEnv,     \* process.env, the raw settings
  pc,             \* position of run()
  filteredRows,   \* run(): filteredRows, the worklist
  filterStats,    \* run(): filterStats
  sel,            \* the locals of loadFilteredDatabase at its return
  sessionId,      \* run(): sessionId
  browser,        \* whether the persistent browser context was launched
  tempPage,       \* the login-verification page: "none", "open" or "closed"
  i,              \* the index of the for loop
  draftedCount, sentCount, skippedCount, errorCount, sendFailedCount,
  tabs,           \* tabs[k]: "open" or "closed", the userPage of target k
  closeCalls,     \* closeCalls[k]: the calls of userPage.close() for target k
  result,         \* processUser: result
  dmResult,       \* processUser: dmResult, until run() has taken the result
  draftingSucceeded, messageSent,
  events,         \* the calls processUser made on the tab of the current
                  \* target, in order, until run() has taken the result
  writes,         \* the calls of updateDraftData, in order
  outcomes,       \* outcomes[k]: the status label run() chose for target k
  summary,        \* the summary run() has logged, "none" before
  built,          \* one call of buildDraftMessage: its arguments and its result
  detection,      \* one call of detectExistingConversation: its page and its result
  previous,       \* what the run before this one left: its number and the
                  \* usernames it gave the outcome Sent or Drafted
  update          \* one call of updateDraftData: its arguments, the row it read
                  \* and the edit another writer of the sheet made meanwhile

runVars == <<sessionId, browser, tempPage, i, draftedCount, sentCount, skippedCount,
             errorCount, sendFailedCount, tabs, closeCalls, result, dmResult,
             draftingSucceeded, messageSent, events, writes, outcomes, summary>>

unitVars == <<built, detection, previous, update>>

vars == <<sheet, config, dryRun, processEnv, pc, filteredRows, filterStats, sel, runVars,
          unitVars>>

----------------------------------------------------------------------------
\* Bounds of the model

MaxRows == 2          \* data rows of a generated sheet
MaxProcessBound == 2  \* largest MAX_PROCCESS of a generated configuration
MaxDraftBound == 2    \* largest MAX_DRAFT of a generated configuration

Null == "NULL"

Min(a, b) == IF a < b THEN a ELSE b

----------------------------------------------------------------------------
\* String.prototype.trim and toLowerCase, computed on the characters

UpperLetters == "ABCDEFGHIJKLMNOPQRSTUVWXYZ"
LowerLetters == "abcdefghijklmnopqrstuvwxyz"

RECURSIVE TrimStart(_)
TrimStart(s) ==
  IF Len(s) > 0 /\ SubSeq(s, 1, 1) = " " THEN TrimStart(SubSeq(s, 2, Len(s))) ELSE s

RECURSIVE TrimEnd(_)
TrimEnd(s) ==
  IF Len(s) > 0 /\ SubSeq(s, Len(s), Len(s)) = " "
  THEN TrimEnd(SubSeq(s, 1, Len(s) - 1)) ELSE s

Trim(s) == TrimEnd(TrimStart(s))

UpperSet == {SubSeq(UpperLetters, k, k) : k \in 1..26}

LowerOf ==
  [u \in UpperSet |->
     LET k == CHOOSE k \in 1..26 : SubSeq(UpperLetters, k, k) = u
     IN SubSeq(LowerLetters, k, k)]

LowerChar(c) == IF c \in UpperSet THEN LowerOf[c] ELSE c

RECURSIVE ToLowerCase(_)
ToLowerCase(s) ==
  IF Len(s) = 0 THEN ""
  ELSE LowerChar(SubSeq(s, 1, 1)) \o ToLowerCase(SubSeq(s, 2, Len(s)))

\* Array.prototype.slice(0, n)
Slice(rows, n) == SubSeq(rows, 1, Min(n, Len(rows)))

----------------------------------------------------------------------------
\* sheetsManager.js: loadDatabaseRows

\* a sheet row is the record of its nine cells (a missing cell reads as "")
Cells == {"sessionId", "dateAdded", "username", "source", "dateSent",
          "message", "status", "name", "bio"}

IsBlankRow(row) == \A c \in Cells : Trim(row[c]) = ""

StructuredRow(row, index) ==
  [rowIndex  |-> index + 2,
   username  |-> ToLowerCase(Trim(row.username)),
   source    |-> Trim(row.source),
   status    |-> Trim(row.status),
   sessionId |-> Trim(row.sessionId),
   message   |-> Trim(row.message),
   name      |-> Trim(row.name),
   bio       |-> Trim(row.bio)]

\* dataRows.forEach((row, index) => ...), index counted from 0
RECURSIVE LoadFrom(_, _)
LoadFrom(dataRows, index) ==
  IF index >= Len(dataRows) THEN <<>>
  ELSE IF IsBlankRow(dataRows[index + 1]) THEN LoadFrom(dataRows, index + 1)
  ELSE <<StructuredRow(dataRows[index + 1], index)>> \o LoadFrom(dataRows, index + 1)

\* the index counted over the rows that are left once the blank rows are dropped
loadDatabaseRows_CountsKeptRows(dataRows) ==
  LoadFrom(SelectSeq(dataRows, LAMBDA row : ~IsBlankRow(row)), 0)

loadDatabaseRows(dataRows) == LoadFrom(dataRows, 0)

----------------------------------------------------------------------------
\* databaseLoader.js: getEligibleRowsByStatus and loadFilteredDatabase

StatusFilter_IgnoresStatus(allRows, status) ==
  SelectSeq(allRows, LAMBDA row : Trim(row.status) = Trim(row.status))

StatusFilter(allRows, status) ==
  SelectSeq(allRows, LAMBDA row : Trim(row.status) = status)

SourceFilter_CaseSensitive(statusFiltered, sourceMode) ==
  IF sourceMode = "all" THEN statusFiltered
  ELSE SelectSeq(statusFiltered, LAMBDA row : Trim(row.source) = sourceMode)

SourceFilter(statusFiltered, sourceMode) ==
  IF sourceMode = "all" THEN statusFiltered
  ELSE SelectSeq(statusFiltered,
                 LAMBDA row : ToLowerCase(Trim(row.source)) = sourceMode)

RECURSIVE Deduplicate_KeepsDuplicates(_, _)
Deduplicate_KeepsDuplicates(rows, seenUsernames) ==
  IF rows = <<>> THEN <<>>
  ELSE LET row == Head(rows)
           normalizedUsername == Trim(ToLowerCase(row.username))
       IN IF Trim(row.username) = ""
          THEN Deduplicate_KeepsDuplicates(Tail(rows), seenUsernames)
          ELSE <<row>> \o Deduplicate_KeepsDuplicates(Tail(rows), seenUsernames)

\* the loop over sourceFiltered with the seenUsernames set
RECURSIVE Deduplicate(_, _)
Deduplicate(rows, seenUsernames) ==
  IF rows = <<>> THEN <<>>
  ELSE LET row == Head(rows)
           normalizedUsername == Trim(ToLowerCase(row.username))
       IN IF Trim(row.username) = ""
          THEN Deduplicate(Tail(rows), seenUsernames)
          ELSE IF normalizedUsername \in seenUsernames
          THEN Deduplicate(Tail(rows), seenUsernames)
          ELSE <<row>> \o Deduplicate(Tail(rows),
                                      seenUsernames \cup {normalizedUsername})

\* the limit applied to sourceFiltered, ahead of the deduplication
getEligibleRowsByStatus_SlicesFirst(allRows, status, sourceMode, maxProcess, excludeUsernames) ==
  LET statusFiltered == StatusFilter(allRows, status)
      sourceFiltered == SourceFilter(statusFiltered, sourceMode)
  IN Deduplicate(Slice(sourceFiltered, maxProcess), excludeUsernames)

getEligibleRowsByStatus(allRows, status, sourceMode, maxProcess, excludeUsernames) ==
  LET statusFiltered == StatusFilter(allRows, status)
      sourceFiltered == SourceFilter(statusFiltered, sourceMode)
      deduplicated   == Deduplicate(sourceFiltered, excludeUsernames)
  IN Slice(deduplicated, maxProcess)

UsernameSet(rows) ==
  {Trim(ToLowerCase(rows[k].username)) : k \in DOMAIN rows}

\* selectedFallback when the fallback branch is taken
SelectFallback_Unbounded(fallbackEligible, remaining) == fallbackEligible

SelectFallback(fallbackEligible, remaining) == Slice(fallbackEligible, remaining)

\* finalRows = [...selectedPrimary, ...selectedFallback]
Combine_FallbackFirst(selectedPrimary, selectedFallback) ==
  selectedFallback \o selectedPrimary

Combine(selectedPrimary, selectedFallback) == selectedPrimary \o selectedFallback

\* whether stage 4 runs
NeedFallback_Reversed(cfg, selectedPrimary) ==
  cfg.enableFallback /\ Len(selectedPrimary) > cfg.maxDraft

NeedFallback(cfg, selectedPrimary) ==
  cfg.enableFallback /\ Len(selectedPrimary) < cfg.maxDraft

\* the statistics loadFilteredDatabase returns with the rows
Stats(primaryEligible, fallbackEligible, selectedPrimary, selectedFallback, finalRows) ==
  [primaryEligible  |-> Len(primaryEligible),
   fallbackEligible |-> Len(fallbackEligible),
   selectedPrimary  |-> Len(selectedPrimary),
   selectedFallback |-> Len(selectedFallback),
   totalSelected    |-> Len(finalRows)]

----------------------------------------------------------------------------
\* Inputs of the selector

SheetRow(username, source, status) ==
  [sessionId |-> "", dateAdded |-> "", username |-> username, source |-> source,
   dateSent |-> "", message |-> "", status |-> status, name |-> "", bio |-> ""]

BlankRow == SheetRow("", "", "")

SelUsernames == {"", "amy", "Amy ", "bob"}
SelSources == {"Likes ", "comments"}
SelStatuses == {"Pending", "Secondary"}

SelSheetRows ==
  {SheetRow(u, s, st) : u \in SelUsernames, s \in SelSources, st \in SelStatuses}
    \cup {BlankRow}

RECURSIVE SeqsUpTo(_, _)
SeqsUpTo(S, n) ==
  IF n = 0 THEN {<<>>}
  ELSE LET shorter == SeqsUpTo(S, n - 1)
       IN shorter \cup {Append(q, x) : q \in {r \in shorter : Len(r) = n - 1}, x \in S}

\* the rows of the selection scenario of the specification, which are those of
\* test1_FallbackDisabled
ScenarioSheet ==
  <<SheetRow("user1", "likes", "Pending"), SheetRow("user2", "likes", "Pending"),
    SheetRow("user3", "likes", "Secondary"), SheetRow("user4", "likes", "Secondary")>>

\* the rows of test2 .. test5 of test-fallback.js
Test2Sheet ==
  <<SheetRow("user1", "likes", "Pending"), SheetRow("user2", "likes", "Pending"),
    SheetRow("user3", "likes", "Pending"), SheetRow("user4", "likes", "Secondary")>>

Test3Sheet ==
  <<SheetRow("user1", "likes", "Pending"), SheetRow("user2", "likes", "Secondary"),
    SheetRow("user3", "likes", "Secondary"), SheetRow("user4", "likes", "Secondary")>>

Test4Sheet ==
  <<SheetRow("user1", "likes", "Pending"), SheetRow("user1", "likes", "Secondary"),
    SheetRow("user2", "likes", "Secondary"), SheetRow("user3", "likes", "Secondary")>>

Test5Sheet ==
  <<SheetRow("user1", "likes", "Pending"), SheetRow("user2", "comments", "Pending"),
    SheetRow("user3", "likes", "Secondary"), SheetRow("user4", "comments", "Secondary")>>

\* a sheet as operators leave it: untrimmed cells, mixed case, a row without
\* username, a blank row, the same account in both pools
MixedSheet ==
  <<SheetRow("", "Likes ", "Pending"), SheetRow("Amy ", "Likes ", "Pending"),
    BlankRow, SheetRow("amy", "likes", "Secondary"),
    SheetRow("bob", "Likes ", "Secondary"), SheetRow("Bob", "likes", "Secondary")>>

\* the same account entered twice ahead of another one
RepeatSheet ==
  <<SheetRow("amy", "likes", "Pending"), SheetRow("Amy ", "likes", "Pending"),
    SheetRow("bob", "likes", "Pending")>>

FixtureSheets ==
  {ScenarioSheet, Test2Sheet, Test3Sheet, Test4Sheet, Test5Sheet, MixedSheet, RepeatSheet}

Config(sourceMode, maxProcess, maxDraft, enableFallback, fallbackStatus, detect, send) ==
  [activateStatus |-> "Pending", sourceMode |-> sourceMode,
   maxProcess |-> maxProcess, maxDraft |-> maxDraft,
   enableFallback |-> enableFallback, fallbackStatus |-> fallbackStatus,
   detectConversation |-> detect, sendMessage |-> send]

ScenarioConfig == Config("all", 100, 3, TRUE, "Secondary", FALSE, FALSE)

\* validateEnv: fallbackStatus is null unless fallback is enabled
FallbackChoices ==
  {<<FALSE, Null>>, <<TRUE, "Secondary">>, <<TRUE, "Pending">>}

SelConfigs ==
  {Config(sm, mp, md, fb[1], fb[2], FALSE, FALSE) :
     sm \in {"all", "likes"}, mp \in 1..MaxProcessBound, md \in 1..MaxDraftBound,
     fb \in FallbackChoices}
    \cup {ScenarioConfig}

NoStats == [primaryEligible |-> 0, fallbackEligible |-> 0, selectedPrimary |-> 0,
            selectedFallback |-> 0, totalSelected |-> 0]

NoLocals == [allRows |-> <<>>, primaryEligible |-> <<>>, selectedPrimary |-> <<>>,
             fallbackEligible |-> <<>>, selectedFallback |-> <<>>,
             returned |-> FALSE]

----------------------------------------------------------------------------
\* sheetsManager.js: updateDraftData

\* the preliminary read of the row; readOk: whether it succeeded
ReadCurrentRow(store, rowIndex, readOk) ==
  IF readOk /\ (rowIndex - 1) \in DOMAIN store THEN store[rowIndex - 1]
  ELSE BlankRow

\* updatedRow: the row that was read with the four cells of the outcome set
UpdatedRow(currentRow, sid, dateSent, message, status) ==
  LET preserveDateAndMessage == status = "Send Failed" \/ status = "Skipped"
  IN [currentRow EXCEPT
        !.sessionId = sid,
        !.dateSent = IF preserveDateAndMessage THEN currentRow.dateSent ELSE dateSent,
        !.message = IF preserveDateAndMessage THEN currentRow.message ELSE message,
        !.status = status]

\* the read and the write of one call, with no other writer in between
updateDraftData(store, rowIndex, sid, dateSent, message, status, readOk) ==
  LET currentRow == ReadCurrentRow(store, rowIndex, readOk)
      updatedRow == UpdatedRow(currentRow, sid, dateSent, message, status)
  IN [store EXCEPT ![rowIndex - 1] = updatedRow]

----------------------------------------------------------------------------
\* dmFlowController.js: openDMController
\* flow1, flow2: what openDirectMessage and openDMViaOptionsMenu do when
\* called: "ok" (success=true), "fail" (success=false) or "throw"

FlowOutcomes == {"ok", "fail", "throw"}

FlowResult(method, outcome) ==
  [success |-> outcome = "ok", method |-> method,
   error |-> IF outcome = "ok" THEN Null ELSE outcome]

\* null in the place of a flow result: the flow was not called
NullFlow == [method |-> Null, success |-> FALSE, error |-> Null]

openDMController_CallsBothFlows(flow1, flow2) ==
  LET flow1Result == FlowResult("flow1", flow1)
      flow2Result == FlowResult("flow2", flow2)
  IN [success |-> flow1Result.success \/ flow2Result.success,
      used |-> IF flow1Result.success THEN "flow1"
               ELSE IF flow2Result.success THEN "flow2" ELSE "none",
      flow1 |-> flow1Result, flow2 |-> flow2Result, calls |-> <<"flow1", "flow2">>]

openDMController(flow1, flow2) ==
  LET flow1Result == FlowResult("flow1", flow1)
      flow2Result == FlowResult("flow2", flow2)
  IN IF flow1Result.success
     THEN [success |-> TRUE, used |-> "flow1", flow1 |-> flow1Result, flow2 |-> NullFlow,
           calls |-> <<"flow1">>]
     ELSE IF flow2Result.success
     THEN [success |-> TRUE, used |-> "flow2", flow1 |-> flow1Result,
           flow2 |-> flow2Result, calls |-> <<"flow1", "flow2">>]
     ELSE [success |-> FALSE, used |-> "none", flow1 |-> flow1Result,
           flow2 |-> flow2Result, calls |-> <<"flow1", "flow2">>]

NoDmResult == [success |-> FALSE, used |-> "none", flow1 |-> NullFlow, flow2 |-> NullFlow,
               calls |-> <<>>]

----------------------------------------------------------------------------
\* messageBuilder.js: buildDraftMessage

RECURSIVE IndexFrom(_, _, _)
IndexFrom(s, separator, k) ==
  IF k + Len(separator) - 1 > Len(s) THEN -1
  ELSE IF SubSeq(s, k, k + Len(separator) - 1) = separator THEN k - 1
  ELSE IndexFrom(s, separator, k + 1)

\* String.prototype.indexOf, counted from 0, -1 when absent
IndexOf(s, separator) == IndexFrom(s, separator, 1)

buildDraftMessage_AlwaysPrefixes(firstName, messageTemplate, separator) ==
  IF messageTemplate = "" THEN ""
  ELSE IF Trim(firstName) = "" THEN Trim(messageTemplate)
  ELSE Trim(firstName) \o separator \o " " \o Trim(messageTemplate)

buildDraftMessage(firstName, messageTemplate, separator) ==
  IF messageTemplate = "" THEN ""
  ELSE LET trimmedFirstName == Trim(firstName)
           trimmedTemplate == Trim(messageTemplate)
           separatorIndex == IndexOf(trimmedTemplate, separator)
       IN IF trimmedFirstName = "" THEN trimmedTemplate
          ELSE IF separatorIndex = -1
          THEN trimmedFirstName \o separator \o " " \o trimmedTemplate
          ELSE SubSeq(trimmedTemplate, 1, separatorIndex) \o " " \o trimmedFirstName
                 \o SubSeq(trimmedTemplate, separatorIndex + 1, Len(trimmedTemplate))

----------------------------------------------------------------------------
\* messageDrafter.js: draftMessage
\* env: what the page does: whether an input is found, whether a UI call throws
\* before the read-back, the text read back, whether each ENTER press succeeds
\* and what each confirmMessageSent returns

SendStep_FirstConfirmationOnly(env) ==
  IF ~env.enter1 THEN [sent |-> FALSE, calls |-> <<"enterFailed">>]
  ELSE IF env.confirm1 THEN [sent |-> TRUE, calls |-> <<"enter", "confirmed">>]
  ELSE IF ~env.enter2
  THEN [sent |-> FALSE, calls |-> <<"enter", "notConfirmed", "enterFailed">>]
  ELSE [sent |-> FALSE,
        calls |-> <<"enter", "notConfirmed", "enter",
                    IF env.confirm2 THEN "confirmed" ELSE "notConfirmed">>]

SendStep_KeepsRetrying(env) ==
  IF ~env.enter1 THEN [sent |-> FALSE, calls |-> <<"enterFailed">>]
  ELSE IF env.confirm1 THEN [sent |-> TRUE, calls |-> <<"enter", "confirmed">>]
  ELSE IF ~env.enter2
  THEN [sent |-> FALSE, calls |-> <<"enter", "notConfirmed", "enterFailed">>]
  ELSE IF env.confirm2
  THEN [sent |-> TRUE, calls |-> <<"enter", "notConfirmed", "enter", "confirmed">>]
  ELSE [sent |-> FALSE,
        calls |-> <<"enter", "notConfirmed", "enter", "notConfirmed", "enter",
                    "notConfirmed">>]

\* draftMessage, step 7 with shouldSend: sendMessage and confirmMessageSent, and
\* one retry of both when the first confirmation fails. "enter" is a call of
\* sendMessage that pressed ENTER, "enterFailed" one that returned false
SendStep(env) ==
  IF ~env.enter1 THEN [sent |-> FALSE, calls |-> <<"enterFailed">>]
  ELSE IF env.confirm1 THEN [sent |-> TRUE, calls |-> <<"enter", "confirmed">>]
  ELSE IF ~env.enter2
  THEN [sent |-> FALSE, calls |-> <<"enter", "notConfirmed", "enterFailed">>]
  ELSE [sent |-> env.confirm2,
        calls |-> <<"enter", "notConfirmed", "enter",
                    IF env.confirm2 THEN "confirmed" ELSE "notConfirmed">>]

shouldSend_Always(sendMessage) == TRUE

\* draftMessage, step 7: options.sendMessage ?? parseBoolean(SEND_MESSAGE); the
\* option is the boolean config.sendMessage in every call of processUser
shouldSend(sendMessage) == sendMessage

Verified_AnyText(typedText, message) == typedText # ""

\* draftMessage, step 6: typedText && typedText.trim() === message.trim()
Verified(typedText, message) == typedText # "" /\ Trim(typedText) = Trim(message)

\* step 6: the text read back from the input, against the message asked for
ReadBack(typedText, message) ==
  IF Trim(typedText) = Trim(message) THEN "readSame" ELSE "readOther"

draftMessage(messageText, sendMessage, env) ==
  IF Trim(messageText) = ""
  THEN [success |-> FALSE, sent |-> FALSE, message |-> Null, calls |-> <<>>]
  ELSE IF ~env.input
  THEN [success |-> FALSE, sent |-> FALSE, message |-> messageText,
        calls |-> <<"locateInput">>]
  ELSE IF env.threw
  THEN [success |-> FALSE, sent |-> FALSE, message |-> Null,
        calls |-> <<"locateInput", "type", "draftError">>]
  ELSE IF ~Verified(env.typedText, messageText)
  THEN [success |-> FALSE, sent |-> FALSE, message |-> messageText,
        calls |-> <<"locateInput", "type", ReadBack(env.typedText, messageText)>>]
  ELSE IF ~shouldSend(sendMessage)
  THEN [success |-> TRUE, sent |-> FALSE, message |-> messageText,
        calls |-> <<"locateInput", "type", ReadBack(env.typedText, messageText), "verified">>]
  ELSE [success |-> TRUE, sent |-> SendStep(env).sent, message |-> messageText,
        calls |-> <<"locateInput", "type", ReadBack(env.typedText, messageText), "verified">> \o SendStep(env).calls]

----------------------------------------------------------------------------
\* envValidator.js: parseBoolean, validateEnv
\* an environment is a record of the raw values; Null is an unset variable

Digits == <<"0", "1", "2", "3", "4", "5", "6", "7", "8", "9">>

IsDigit(c) == \E d \in DOMAIN Digits : Digits[d] = c

DigitValue(c) == (CHOOSE d \in DOMAIN Digits : Digits[d] = c) - 1

RECURSIVE ParseDigits(_, _)
\* the value of the longest prefix of digits of s, after the digits of acc
ParseDigits(s, acc) ==
  IF s = "" \/ ~IsDigit(Head(s)) THEN acc
  ELSE ParseDigits(Tail(s), 10 * acc + DigitValue(Head(s)))

\* parseInt(s, 10): leading white space and a sign are skipped, the digits up
\* to the first other character are read; NaN when there is no digit
parseInt(raw) ==
  LET s == TrimStart(raw)
      negative == s # "" /\ Head(s) = "-"
      signed == s # "" /\ (Head(s) = "-" \/ Head(s) = "+")
      digits == IF signed THEN Tail(s) ELSE s
  IN IF digits = "" \/ ~IsDigit(Head(digits)) THEN [nan |-> TRUE, value |-> 0]
     ELSE [nan |-> FALSE,
           value |-> IF negative THEN 0 - ParseDigits(digits, 0)
                     ELSE ParseDigits(digits, 0)]

parseBoolean(value, defaultValue) ==
  IF value = Null \/ value = "" THEN defaultValue
  ELSE LET normalized == ToLowerCase(Trim(value))
       IN IF normalized \in {"true", "1", "yes"} THEN TRUE
          ELSE IF normalized \in {"false", "0", "no"} THEN FALSE
          ELSE defaultValue

VALID_SOURCE_MODES ==
  {"likes", "comments", "comment_free", "followers", "pod_guest", "all"}

\* validateEnv: the test of a required string
BlankOrMissing(value) == value = Null \/ value = "" \/ Trim(value) = ""

\* validateEnv: the test of MAX_DRAFT and of MAX_PROCCESS
BadCount(value) ==
  \/ value = Null \/ value = ""
  \/ IndexOf(Trim(value), ".") # -1
  \/ parseInt(Trim(value)).nan
  \/ parseInt(Trim(value)).value < 1

\* validateEnv: ENABLE_FALLBACK, with the error it adds
EnableFallbackOf(raw) ==
  IF raw = Null THEN [value |-> FALSE, error |-> FALSE]
  ELSE LET normalized == ToLowerCase(Trim(raw))
       IN IF normalized \in {"true", "false"}
          THEN [value |-> normalized = "true", error |-> FALSE]
          ELSE [value |-> FALSE, error |-> TRUE]

\* validateEnv: the errors it collects
EnvErrors(e) ==
  (IF BlankOrMissing(e.INSTAGRAM_USERNAME) THEN {"INSTAGRAM_USERNAME"} ELSE {})
    \cup (IF BlankOrMissing(e.GOOGLE_SHEET_ID) THEN {"GOOGLE_SHEET_ID"} ELSE {})
    \cup (IF BlankOrMissing(e.GOOGLE_SHEET_NAME) THEN {"GOOGLE_SHEET_NAME"} ELSE {})
    \cup (IF ~e.credentialsUsable THEN {"GOOGLE_CREDENTIALS"} ELSE {})
    \cup (IF BlankOrMissing(e.DRAFT_MESSAGE) THEN {"DRAFT_MESSAGE"} ELSE {})
    \cup (IF BlankOrMissing(e.ACTIVATE_STATUS) THEN {"ACTIVATE_STATUS"} ELSE {})
    \cup (IF BlankOrMissing(e.SOURCE_MODE)
             \/ ToLowerCase(Trim(e.SOURCE_MODE)) \notin VALID_SOURCE_MODES
          THEN {"SOURCE_MODE"} ELSE {})
    \cup (IF BadCount(e.MAX_DRAFT) THEN {"MAX_DRAFT"} ELSE {})
    \cup (IF BadCount(e.MAX_PROCCESS) THEN {"MAX_PROCCESS"} ELSE {})
    \cup (IF EnableFallbackOf(e.ENABLE_FALLBACK).error THEN {"ENABLE_FALLBACK"} ELSE {})
    \cup (IF EnableFallbackOf(e.ENABLE_FALLBACK).value /\ BlankOrMissing(e.FALLBACK_STATUS)
          THEN {"FALLBACK_STATUS"} ELSE {})

\* validateEnv: the configuration object it returns when there is no error
ConfigOf(e) ==
  LET enableFallback == EnableFallbackOf(e.ENABLE_FALLBACK).value
  IN [activateStatus |-> Trim(e.ACTIVATE_STATUS),
      sourceMode |-> ToLowerCase(Trim(e.SOURCE_MODE)),
      maxProcess |-> parseInt(e.MAX_PROCCESS).value,
      maxDraft |-> parseInt(e.MAX_DRAFT).value,
      enableFallback |-> enableFallback,
      fallbackStatus |-> IF enableFallback THEN Trim(e.FALLBACK_STATUS) ELSE Null,
      detectConversation |-> parseBoolean(e.DETECT_CONVERSATION, FALSE),
      sendMessage |-> parseBoolean(e.SEND_MESSAGE, FALSE)]

\* run(): config before validateEnv has returned (null)
NoConfig ==
  [activateStatus |-> Null, sourceMode |-> Null, maxProcess |-> 0, maxDraft |-> 0,
   enableFallback |-> FALSE, fallbackStatus |-> Null, detectConversation |-> FALSE,
   sendMessage |-> FALSE]

----------------------------------------------------------------------------
\* Inputs of a run

DraftTemplate == "Hey! Thanks."
PageFirstNames == {"", "John"}
Timestamp == "2026-01-01T00:00:00.000Z"
SessionIds == {"1767225600000"}

DraftEnv(input, threw, typedText, enter1, confirm1, enter2, confirm2) ==
  [input |-> input, threw |-> threw, typedText |-> typedText, enter1 |-> enter1,
   confirm1 |-> confirm1, enter2 |-> enter2, confirm2 |-> confirm2]

\* what the two ENTER presses and the two confirmations can do, one tuple for
\* each course the send can take
SendEnvs ==
  {<<FALSE, FALSE, FALSE, FALSE>>, <<TRUE, TRUE, FALSE, FALSE>>,
   <<TRUE, FALSE, FALSE, FALSE>>, <<TRUE, FALSE, TRUE, FALSE>>,
   <<TRUE, FALSE, TRUE, TRUE>>}

\* the pages draftMessage can meet, one for each course it can take: no input, a
\* UI call that throws, a read-back that differs, a read-back that matches
DraftEnvs(messageText) ==
  {DraftEnv(FALSE, FALSE, "", FALSE, FALSE, FALSE, FALSE),
   DraftEnv(TRUE, TRUE, "", FALSE, FALSE, FALSE, FALSE)}
    \cup {DraftEnv(TRUE, FALSE, t, FALSE, FALSE, FALSE, FALSE) : t \in {"", "Hey"}}
    \cup {DraftEnv(TRUE, FALSE, t, e[1], e[2], e[3], e[4]) :
            t \in {messageText, messageText \o " "}, e \in SendEnvs}

\* a row that an earlier run drafted and the operator set back to its pool
UsedRow(username, source, status) ==
  [SheetRow(username, source, status) EXCEPT
     !.sessionId = "1700000000000", !.dateAdded = "2025-12-01",
     !.dateSent = "2025-12-24T10:00:00.000Z", !.message = "Hey Old! Thanks.",
     !.name = "Old", !.bio = "bio"]

RunRows ==
  <<SheetRow("user1", "likes", "Pending"), UsedRow("User2 ", "likes", "Pending"),
    SheetRow("user3", "likes", "Sent"), SheetRow("user4", "likes", "Pending"),
    UsedRow("user5", "comments", "Pending"), SheetRow("user6", "likes", "Pending")>>

\* the sheets of the runs: up to one more eligible row than MAX_DRAFT can take
RunSheets == {SubSeq(RunRows, 1, n) : n \in 0..Min(MaxDraftBound + 2, Len(RunRows))}

RunConfigs ==
  {Config("all", MaxProcessBound, md, FALSE, Null, dc, sm) :
     md \in 1..MaxDraftBound, dc \in BOOLEAN, sm \in BOOLEAN}

\* the decimal numeral of a count below ten
DecimalOf(n) == Digits[n + 1]

\* an environment that sets every variable properly
ValidEnv(maxDraft, detect, send) ==
  [INSTAGRAM_USERNAME |-> "bot", GOOGLE_SHEET_ID |-> "sheet-id",
   GOOGLE_SHEET_NAME |-> "Leads", credentialsUsable |-> TRUE,
   DRAFT_MESSAGE |-> DraftTemplate, ACTIVATE_STATUS |-> "Pending",
   SOURCE_MODE |-> "all", MAX_DRAFT |-> DecimalOf(maxDraft),
   MAX_PROCCESS |-> DecimalOf(MaxProcessBound),
   DETECT_CONVERSATION |-> IF detect THEN "true" ELSE Null,
   SEND_MESSAGE |-> IF send THEN "true" ELSE "false",
   ENABLE_FALLBACK |-> Null, FALLBACK_STATUS |-> Null]

BaseEnv == ValidEnv(MaxDraftBound, TRUE, TRUE)

\* the settings an operator gets wrong or writes loosely, one .env edit each
EnvEdits ==
  {[INSTAGRAM_USERNAME |-> Null], [INSTAGRAM_USERNAME |-> "  "],
   [GOOGLE_SHEET_ID |-> Null], [GOOGLE_SHEET_NAME |-> ""],
   [credentialsUsable |-> FALSE],
   [DRAFT_MESSAGE |-> " "], [ACTIVATE_STATUS |-> Null],
   [SOURCE_MODE |-> Null], [SOURCE_MODE |-> "dms"], [SOURCE_MODE |-> " Likes "],
   [MAX_DRAFT |-> Null], [MAX_DRAFT |-> "0"], [MAX_DRAFT |-> "1.5"],
   [MAX_DRAFT |-> "abc"], [MAX_DRAFT |-> "-1"], [MAX_DRAFT |-> " 2 "],
   [MAX_DRAFT |-> "2abc"],
   [MAX_PROCCESS |-> ""], [MAX_PROCCESS |-> "0"], [MAX_PROCCESS |-> "x"],
   [SEND_MESSAGE |-> "maybe"], [DETECT_CONVERSATION |-> "YES"],
   [ENABLE_FALLBACK |-> "yes"], [ENABLE_FALLBACK |-> ""],
   [ENABLE_FALLBACK |-> "true"],
   [ENABLE_FALLBACK |-> "true", FALLBACK_STATUS |-> "  "],
   [ENABLE_FALLBACK |-> "False", FALLBACK_STATUS |-> "  "],
   [ENABLE_FALLBACK |-> "TRUE ", FALLBACK_STATUS |-> " Sent "]}

Edited(e, edit) ==
  [f \in DOMAIN e |-> IF f \in DOMAIN edit THEN edit[f] ELSE e[f]]

RunEnvs ==
  {ValidEnv(md, dc, sm) : md \in 1..MaxDraftBound, dc \in BOOLEAN, sm \in BOOLEAN}
    \cup {Edited(ValidEnv(1, FALSE, FALSE), edit) : edit \in EnvEdits}

\* no edit by another writer
NoEdit == [cell |-> "none", value |-> ""]

\* before the call
NoUpdate == [rowIndex |-> 0, status |-> "", currentRow |-> BlankRow, edit |-> NoEdit,
             written |-> FALSE]

\* the first run of the program on the sheet
NoPrevious == [runs |-> 0, succeeded |-> {}, writeThrew |-> FALSE]

\* before the call
NoBuilt == [firstName |-> "", messageTemplate |-> "", separator |-> "", message |-> Null,
            returned |-> FALSE]

NoDetection == [page |-> [throws |-> FALSE, rawCandidates |-> <<>>],
                hasConversation |-> FALSE, reason |-> Null, messageCount |-> Null,
                returned |-> FALSE]

NoResult == [success |-> FALSE, skipped |-> FALSE, sent |-> FALSE, error |-> Null,
             message |-> Null]

----------------------------------------------------------------------------
\* run(), steps 2 to 4

inputVars == <<sheet, config, dryRun, processEnv>>
selOut == <<filteredRows, filterStats, sel>>
counters == <<draftedCount, sentCount, skippedCount, errorCount, sendFailedCount>>
tabVars == <<tabs, closeCalls>>
userVars == <<result, dmResult, events>>
flags == <<draftingSucceeded, messageSent>>

\* step 1: validateEnv; its error is rethrown to the fatal handler
ValidateEnv ==
  /\ pc = "validate"
  /\ IF EnvErrors(processEnv) = {}
     THEN config' = ConfigOf(processEnv) /\ pc' = "load"
     ELSE config' = config /\ pc' = "fatal"
  /\ UNCHANGED <<unitVars, sheet, dryRun, processEnv, selOut, runVars>>

\* step 2: loadDatabaseRows, whose result is only counted
LoadAllRows ==
  /\ pc = "load"
  /\ \E loaded \in BOOLEAN : pc' = IF loaded THEN "filter" ELSE "fatal"
  /\ UNCHANGED <<unitVars, inputVars, selOut, runVars>>

AfterFilter_IgnoresEmpty(rows, dry) == IF dry THEN "dryrun" ELSE "browser"

AfterFilter_IgnoresDryRun(rows, dry) == IF Len(rows) = 0 THEN "done" ELSE "browser"

\* run(): where step 3 leads: the early exit on an empty worklist, the dry run,
\* the browser
AfterFilter(rows, dry) ==
  IF Len(rows) = 0 THEN "done" ELSE IF dry THEN "dryrun" ELSE "browser"

\* step 3: loadFilteredDatabase, each constant of its body in turn; an empty
\* worklist ends the run with its summary
LoadFilteredDatabase ==
  /\ pc = "filter"
  /\ \E allRows \in {loadDatabaseRows(sheet)} :
     \E primaryEligible \in
          {getEligibleRowsByStatus(allRows, config.activateStatus, config.sourceMode,
                                   config.maxProcess, {})} :
     \E selectedPrimary \in {Slice(primaryEligible, config.maxDraft)} :
     \E needFallback \in {NeedFallback(config, selectedPrimary)} :
     \E fallbackEligible \in
          {IF needFallback
           THEN getEligibleRowsByStatus(allRows, config.fallbackStatus,
                                        config.sourceMode, config.maxProcess,
                                        UsernameSet(selectedPrimary))
           ELSE <<>>} :
     \E selectedFallback \in
          {IF needFallback
           THEN SelectFallback(fallbackEligible, config.maxDraft - Len(selectedPrimary))
           ELSE <<>>} :
     \E finalRows \in {Combine(selectedPrimary, selectedFallback)} :
       /\ filteredRows' = finalRows
       /\ filterStats' = Stats(primaryEligible, fallbackEligible, selectedPrimary,
                               selectedFallback, finalRows)
       /\ sel' = [allRows |-> allRows, primaryEligible |-> primaryEligible,
                  selectedPrimary |-> selectedPrimary,
                  fallbackEligible |-> fallbackEligible,
                  selectedFallback |-> selectedFallback, returned |-> TRUE]
       /\ pc' = AfterFilter(finalRows, dryRun)
       /\ summary' = IF Len(finalRows) = 0 THEN "empty" ELSE summary
  /\ UNCHANGED <<unitVars, inputVars, sessionId, browser, tempPage, i, counters, tabVars,
                 userVars, flags, writes, outcomes>>

\* step 3 when loadDatabaseRows throws inside loadFilteredDatabase
LoadFilteredDatabaseFails ==
  /\ pc = "filter"
  /\ pc' = "fatal"
  /\ UNCHANGED <<unitVars, inputVars, selOut, runVars>>

\* step 4 in dry-run mode: the list of the users and the summary
DryRunSummary ==
  /\ pc = "dryrun"
  /\ summary' = "dryrun"
  /\ pc' = "done"
  /\ UNCHANGED <<unitVars, inputVars, selOut, sessionId, browser, tempPage, i, counters,
                 tabVars, userVars, flags, writes, outcomes>>

\* step 4: initializeBrowser and the login check on a temporary page
InitializeBrowser ==
  /\ pc = "browser"
  /\ \E launch \in {"launchFails", "notLoggedIn", "ok"} :
       /\ browser' = (launch # "launchFails")
       /\ tempPage' = IF launch = "launchFails" THEN tempPage ELSE "closed"
       /\ pc' = IF launch = "ok" THEN "loop" ELSE "fatal"
  /\ UNCHANGED <<unitVars, inputVars, selOut, sessionId, i, counters, tabVars, userVars,
                 flags, writes, outcomes, summary>>

----------------------------------------------------------------------------
\* run(), step 5: the loop over filteredRows

LimitReached_OneEarly ==
  IF config.sendMessage THEN sentCount + 1 >= config.maxDraft
  ELSE draftedCount + 1 >= config.maxDraft

LimitReached_CountsSendFailed ==
  IF config.sendMessage THEN sentCount + sendFailedCount >= config.maxDraft
  ELSE draftedCount >= config.maxDraft

\* run(): the limit check at the head and at the end of an iteration
LimitReached ==
  IF config.sendMessage THEN sentCount >= config.maxDraft
  ELSE draftedCount >= config.maxDraft

\* the head of the for loop: the end of the list, the limit check, the new tab
LoopHead ==
  /\ pc = "loop"
  /\ \/ /\ (i >= Len(filteredRows) \/ LimitReached)
        /\ pc' = "summary"
        /\ UNCHANGED <<tabVars, userVars, flags>>
     \/ /\ i < Len(filteredRows) /\ ~LimitReached
        /\ \E created \in BOOLEAN :
             IF created
             THEN /\ tabs' = Append(tabs, "open")
                  /\ closeCalls' = Append(closeCalls, 0)
                  /\ result' = NoResult
                  /\ dmResult' = NoDmResult
                  /\ events' = <<>>
                  /\ draftingSucceeded' = FALSE
                  /\ messageSent' = FALSE
                  /\ pc' = "navigate"
             ELSE /\ pc' = "fatal"
                  /\ UNCHANGED <<tabVars, userVars, flags>>
  /\ UNCHANGED <<unitVars, inputVars, selOut, sessionId, browser, tempPage, i, counters,
                 writes, outcomes, summary>>

\* the tab of the target before
userPage_Previous == IF i = 0 THEN 1 ELSE i

\* run(): userPage, the tab created for the target of the iteration, by its
\* position among the tabs the loop created
userPage == i + 1

targetRow_First == filteredRows[1]

\* run(): row, the worklist entry of the iteration
targetRow == filteredRows[i + 1]

CaughtResult_ReportsSuccess(r, message) == [r EXCEPT !.success = TRUE]

\* processUser: the catch, which returns the result with the message of the error
CaughtResult(r, message) == [r EXCEPT !.error = message]

\* processUser: navigateToProfile; the login redirect throws inside the try of
\* processUser, whose catch returns the result with the error
Navigate ==
  /\ pc = "navigate"
  /\ \E landed \in {"profile", "login"} :
       IF landed = "profile"
       THEN /\ events' = Append(events, "navigate")
            /\ pc' = "openDM" /\ result' = result
       ELSE /\ events' = events \o <<"navigate", "navigateError">>
            /\ result' = CaughtResult(result, "Not logged in")
            /\ pc' = "writeBack"
  /\ UNCHANGED <<unitVars, inputVars, selOut, sessionId, browser, tempPage, i, counters,
                 tabVars, dmResult, flags, writes, outcomes, summary>>

AfterOpenDM_AlwaysDetects(cfg) == "detect"

\* processUser: the detector is called when config.detectConversation is set
AfterOpenDM(cfg) == IF cfg.detectConversation THEN "detect" ELSE "draft"

OpenFailed_Never(r) == FALSE

\* processUser: if (!dmResult.success), the return with 'Failed to open DM'
OpenFailed(r) == ~r.success

\* processUser: openDMController
OpenDM ==
  /\ pc = "openDM"
  /\ \E flow1 \in FlowOutcomes, flow2 \in FlowOutcomes :
       LET r == openDMController(flow1, flow2)
       IN /\ dmResult' = r
          /\ events' = events \o r.calls
          /\ IF OpenFailed(r)
             THEN /\ result' = [result EXCEPT !.error = "Failed to open DM"]
                  /\ pc' = "writeBack"
             ELSE /\ result' = result
                  /\ pc' = AfterOpenDM(config)
  /\ UNCHANGED <<unitVars, inputVars, selOut, sessionId, browser, tempPage, i, counters,
                 tabVars, flags, writes, outcomes, summary>>

\* conversationDetector.js: detectExistingConversation
\* a page is what the DM thread holds: whether a call on it throws, and the
\* raw candidates, each the trimmed innerText of an element and whether the
\* element lies in a header

Candidate(text, isInHeader) == [text |-> text, isInHeader |-> isInHeader]

Page(throws, rawCandidates) == [throws |-> throws, rawCandidates |-> rawCandidates]

\* String.prototype.includes
Includes(s, part) == IndexOf(s, part) # -1

\* the words of the interface that the filter of step 3 takes for boilerplate
Boilerplate == {"instagram", "profile", "follow", "message", "send"}

IsMessage_AnyLength(candidate) ==
  /\ Trim(candidate.text) # ""
  /\ ~candidate.isInHeader
  /\ \A word \in Boilerplate : ~Includes(ToLowerCase(candidate.text), word)

\* step 3: the predicate of rawCandidates.filter
IsMessage(candidate) ==
  /\ Trim(candidate.text) # ""
  /\ ~candidate.isInHeader
  /\ \A word \in Boilerplate : ~Includes(ToLowerCase(candidate.text), word)
  /\ ~(Len(candidate.text) < 3)

\* messageCount is undefined (Null) in the result of the catch
detectExistingConversation(page) ==
  IF page.throws
  THEN [hasConversation |-> FALSE, reason |-> "detection_error", messageCount |-> Null,
        calls |-> <<"detect", "detectError">>]
  ELSE LET filteredCandidates == SelectSeq(page.rawCandidates, IsMessage)
           validMessageCount == Len(filteredCandidates)
       IN IF validMessageCount >= 1
          THEN [hasConversation |-> TRUE, reason |-> "detected_valid_message_bubbles",
                messageCount |-> validMessageCount, calls |-> <<"detect">>]
          ELSE [hasConversation |-> FALSE, reason |-> "empty_modal_thread",
                messageCount |-> 0, calls |-> <<"detect">>]

\* what the page does to the detector in a run: it shows messages, it shows
\* none, or a call on it throws
DetectorOutcomes == {"messages", "none", "throws"}

\* the page of each: a thread under its header, with an earlier message or empty
PageOf(detected) ==
  IF detected = "throws" THEN Page(TRUE, <<>>)
  ELSE IF detected = "none"
  THEN Page(FALSE, <<Candidate("user4", TRUE), Candidate("View profile", FALSE)>>)
  ELSE Page(FALSE, <<Candidate("user4", TRUE), Candidate("View profile", FALSE),
                     Candidate("hello there", FALSE)>>)

\* messageBuilder.js: extractFirstName; its catch falls back to the name
\* derived from the username, as the path without a name on the page does
extractFirstName(firstName, threw) ==
  IF threw THEN [firstName |-> firstName, calls |-> <<"extractFirstName", "extractError">>]
  ELSE [firstName |-> firstName, calls |-> <<"extractFirstName">>]

\* processUser: detectExistingConversation, called when detection is enabled
DetectConversation ==
  /\ pc = "detect"
  /\ \E detected \in DetectorOutcomes :
       /\ events' = events \o detectExistingConversation(PageOf(detected)).calls
       /\ IF detectExistingConversation(PageOf(detected)).hasConversation
          THEN /\ result' = [result EXCEPT !.skipped = TRUE,
                                           !.error = "Existing conversation detected"]
               /\ pc' = "writeBack"
          ELSE result' = result /\ pc' = "draft"
  /\ UNCHANGED <<unitVars, inputVars, selOut, sessionId, browser, tempPage, i, counters,
                 tabVars, dmResult, flags, writes, outcomes, summary>>

\* processUser: extractFirstName, buildDraftMessage, draftMessage
DraftAndSend ==
  /\ pc = "draft"
  /\ \E name \in PageFirstNames, threw \in BOOLEAN :
       LET firstName == extractFirstName(name, threw).firstName
           messageText == buildDraftMessage(firstName, DraftTemplate, "!")
       IN \E env \in DraftEnvs(messageText) :
            LET draftResult == draftMessage(messageText, config.sendMessage, env)
            IN /\ events' = events \o extractFirstName(name, threw).calls
                              \o <<"build">> \o draftResult.calls
               /\ result' =
                    IF ~draftResult.success
                    THEN [result EXCEPT !.error = "Failed to draft message"]
                    ELSE [result EXCEPT
                            !.success = TRUE,
                            !.message = draftResult.message,
                            !.sent = config.sendMessage /\ draftResult.sent,
                            !.error = IF config.sendMessage /\ ~draftResult.sent
                                      THEN "Message send failed" ELSE Null]
  /\ pc' = "writeBack"
  /\ UNCHANGED <<unitVars, inputVars, selOut, sessionId, browser, tempPage, i, counters,
                 tabVars, dmResult, flags, writes, outcomes, summary>>

\* one call of updateDraftData: the store after it and its record in writes
StoreAfter(rowIndex, dateSent, message, status, api) ==
  IF api = "throws" THEN sheet
  ELSE updateDraftData(sheet, rowIndex, sessionId, dateSent, message, status,
                       api = "ok")

WriteCall(rowIndex, dateSent, message, status, api) ==
  [rowIndex |-> rowIndex, sessionId |-> sessionId, dateSent |-> dateSent,
   message |-> message, status |-> status, threw |-> (api = "throws")]

ApiOutcomes == {"ok", "readFails", "throws"}

SuccessStatus_AlwaysDrafted == "Drafted"

\* the status of a result that reports success
SuccessStatus ==
  IF config.sendMessage THEN (IF result.sent THEN "Sent" ELSE "Send Failed")
  ELSE "Drafted"

\* run(): the branch result.skipped up to the write-back
WriteBackSkipped ==
  /\ pc = "writeBack" /\ result.skipped
  /\ \E api \in ApiOutcomes :
       /\ sheet' = StoreAfter(targetRow.rowIndex, "", "", "Skipped", api)
       /\ writes' = Append(writes, WriteCall(targetRow.rowIndex, "", "", "Skipped", api))
  /\ skippedCount' = skippedCount + 1
  /\ draftingSucceeded' = FALSE
  /\ outcomes' = Append(outcomes, "Skipped")
  /\ dmResult' = NoDmResult
  /\ events' = <<>>
  /\ pc' = "closeSkipped"
  /\ UNCHANGED <<unitVars, config, dryRun, processEnv, selOut, sessionId, browser, tempPage, i,
                 draftedCount, sentCount, errorCount, sendFailedCount, tabVars,
                 result, messageSent, summary>>

\* run(): the branch result.skipped, userPage.close()
CloseSkipped ==
  /\ pc = "closeSkipped"
  /\ tabs' = [tabs EXCEPT ![userPage] = "closed"]
  /\ closeCalls' = [closeCalls EXCEPT ![userPage] = @ + 1]
  /\ pc' = "pauseSkipped"
  /\ UNCHANGED <<unitVars, inputVars, selOut, sessionId, browser, tempPage, i, counters,
                 userVars, flags, writes, outcomes, summary>>

\* the branch result.skipped without its continue
PauseSkipped_FallsThrough ==
  /\ pc = "pauseSkipped"
  /\ pc' = "tabLifecycle"
  /\ UNCHANGED <<unitVars, inputVars, selOut, sessionId, browser, tempPage, i, counters,
                 tabVars, userVars, flags, writes, outcomes, summary>>

\* run(): the branch result.skipped, the pause and continue
PauseSkipped ==
  /\ pc = "pauseSkipped"
  /\ i' = i + 1
  /\ pc' = "loop"
  /\ UNCHANGED <<unitVars, inputVars, selOut, sessionId, browser, tempPage, counters, tabVars,
                 userVars, flags, writes, outcomes, summary>>

\* the flags after the write-back of a result that reports success
FlagsAfterSuccess(sendMode, sent, threw) ==
  IF threw THEN [draftingSucceeded |-> TRUE, messageSent |-> FALSE]
  ELSE IF sendMode THEN [draftingSucceeded |-> sent, messageSent |-> sent]
  ELSE [draftingSucceeded |-> TRUE, messageSent |-> FALSE]

\* run(): the branch result.success
WriteBackSuccess ==
  /\ pc = "writeBack" /\ ~result.skipped /\ result.success
  /\ LET status == SuccessStatus
         dateSent == IF status = "Send Failed" THEN "" ELSE Timestamp
         message == IF status = "Send Failed" THEN "" ELSE result.message
     IN /\ sentCount' = IF status = "Sent" THEN sentCount + 1 ELSE sentCount
        /\ sendFailedCount' =
             IF status = "Send Failed" THEN sendFailedCount + 1 ELSE sendFailedCount
        /\ draftedCount' = IF status = "Drafted" THEN draftedCount + 1 ELSE draftedCount
        /\ outcomes' = Append(outcomes, status)
        /\ \E api \in ApiOutcomes :
             LET f == FlagsAfterSuccess(config.sendMessage, result.sent, api = "throws")
             IN /\ sheet' = StoreAfter(targetRow.rowIndex, dateSent, message, status, api)
                /\ writes' =
                     Append(writes, WriteCall(targetRow.rowIndex, dateSent, message, status, api))
                /\ errorCount' = IF api = "throws" THEN errorCount + 1 ELSE errorCount
                /\ draftingSucceeded' = f.draftingSucceeded
                /\ messageSent' = f.messageSent
  /\ dmResult' = NoDmResult
  /\ events' = <<>>
  /\ pc' = "tabLifecycle"
  /\ UNCHANGED <<unitVars, config, dryRun, processEnv, selOut, sessionId, browser, tempPage, i,
                 skippedCount, tabVars, result, summary>>

\* run(): the else branch, a result that reports neither skipped nor success
WriteBackFailed ==
  /\ pc = "writeBack" /\ ~result.skipped /\ ~result.success
  /\ \E api \in ApiOutcomes :
       /\ sheet' = StoreAfter(targetRow.rowIndex, "", "", "Failed", api)
       /\ writes' = Append(writes, WriteCall(targetRow.rowIndex, "", "", "Failed", api))
  /\ errorCount' = errorCount + 1
  /\ draftingSucceeded' = FALSE
  /\ outcomes' = Append(outcomes, "Failed")
  /\ dmResult' = NoDmResult
  /\ events' = <<>>
  /\ pc' = "tabLifecycle"
  /\ UNCHANGED <<unitVars, config, dryRun, processEnv, selOut, sessionId, browser, tempPage, i,
                 draftedCount, sentCount, skippedCount, sendFailedCount, tabVars,
                 result, messageSent, summary>>

ShouldCloseTab_UnlessSucceeded(sendMode, succeeded, sent) == ~succeeded

\* whether the end of the iteration closes the tab
ShouldCloseTab(sendMode, succeeded, sent) ==
  IF sendMode THEN succeeded /\ sent ELSE ~succeeded

\* run(): the tab of the target is closed or kept
TabLifecycle ==
  /\ pc = "tabLifecycle"
  /\ IF ShouldCloseTab(config.sendMessage, draftingSucceeded, messageSent)
     THEN /\ tabs' = [tabs EXCEPT ![userPage] = "closed"]
          /\ closeCalls' = [closeCalls EXCEPT ![userPage] = @ + 1]
     ELSE UNCHANGED tabVars
  /\ pc' = "pause"
  /\ UNCHANGED <<unitVars, inputVars, selOut, sessionId, browser, tempPage, i, counters,
                 userVars, flags, writes, outcomes, summary>>

\* run(): the pause and the limit check that end an iteration
PauseAndLimit ==
  /\ pc = "pause"
  /\ IF LimitReached THEN pc' = "summary" /\ i' = i
     ELSE pc' = "loop" /\ i' = i + 1
  /\ UNCHANGED <<unitVars, inputVars, selOut, sessionId, browser, tempPage, counters, tabVars,
                 userVars, flags, writes, outcomes, summary>>

\* step 6: the final summary
FinalSummary ==
  /\ pc = "summary"
  /\ summary' = "final"
  /\ pc' = "done"
  /\ UNCHANGED <<unitVars, inputVars, selOut, sessionId, browser, tempPage, i, counters,
                 tabVars, userVars, flags, writes, outcomes>>

\* the catch of a fatal error: the fatal error summary; the browser stays open
FatalError ==
  /\ pc = "fatal"
  /\ summary' = "fatal"
  /\ pc' = "done"
  /\ UNCHANGED <<unitVars, inputVars, selOut, sessionId, browser, tempPage, i, counters,
                 tabVars, userVars, flags, writes, outcomes>>

----------------------------------------------------------------------------
\* The specifications

RunInit ==
  /\ sessionId \in SessionIds
  /\ browser = FALSE
  /\ tempPage = "none"
  /\ i = 0
  /\ draftedCount = 0 /\ sentCount = 0 /\ skippedCount = 0
  /\ errorCount = 0 /\ sendFailedCount = 0
  /\ tabs = <<>>
  /\ closeCalls = <<>>
  /\ result = NoResult
  /\ dmResult = NoDmResult
  /\ draftingSucceeded = FALSE
  /\ messageSent = FALSE
  /\ events = <<>>
  /\ writes = <<>>
  /\ outcomes = <<>>
  /\ summary = "none"
  /\ filteredRows = <<>>
  /\ filterStats = NoStats
  /\ sel = NoLocals

\* a run, from the start of run()
Init ==
  /\ sheet \in RunSheets
  /\ processEnv \in RunEnvs
  /\ config = NoConfig
  /\ dryRun \in BOOLEAN
  /\ pc = "validate"
  /\ RunInit
  /\ built = NoBuilt
  /\ detection = NoDetection
  /\ previous = NoPrevious
  /\ update = NoUpdate

Next ==
  \/ ValidateEnv
  \/ LoadAllRows
  \/ LoadFilteredDatabase
  \/ LoadFilteredDatabaseFails
  \/ DryRunSummary
  \/ InitializeBrowser
  \/ LoopHead
  \/ Navigate
  \/ OpenDM
  \/ DetectConversation
  \/ DraftAndSend
  \/ WriteBackSkipped
  \/ CloseSkipped
  \/ PauseSkipped
  \/ WriteBackSuccess
  \/ WriteBackFailed
  \/ TabLifecycle
  \/ PauseAndLimit
  \/ FinalSummary
  \/ FatalError

Spec == Init /\ [][Next]_vars

\* the selector alone, on every sheet and configuration of the bounds
SelInit ==
  /\ sheet \in SeqsUpTo(SelSheetRows, MaxRows) \cup FixtureSheets
  /\ config \in SelConfigs
  /\ processEnv = BaseEnv
  /\ dryRun = FALSE
  /\ pc = "filter"
  /\ RunInit
  /\ built = NoBuilt
  /\ detection = NoDetection
  /\ previous = NoPrevious
  /\ update = NoUpdate

SelNext == LoadFilteredDatabase

SelSpec == SelInit /\ [][SelNext]_vars

\* buildDraftMessage alone, on names and templates with and without the
\* separator, with and without blanks around them
BuildNames == {"", "John", "  ", " Amy ", "Ann Lee"}

BuildTemplates ==
  {"Hey! Thanks for following.", "Hey! Thanks.", "Thanks for following", " Hi! ",
   "Hi, you! Hi!", "!", ""}

BuildSeparators == {"!", ","}

BuildInit ==
  /\ sheet = <<>>
  /\ processEnv = BaseEnv
  /\ config = NoConfig
  /\ dryRun = FALSE
  /\ pc = "build"
  /\ RunInit
  /\ built \in {[NoBuilt EXCEPT !.firstName = n, !.messageTemplate = t, !.separator = c] :
                  n \in BuildNames, t \in BuildTemplates, c \in BuildSeparators}
  /\ detection = NoDetection
  /\ previous = NoPrevious
  /\ update = NoUpdate

BuildMessage ==
  /\ pc = "build"
  /\ built' = [built EXCEPT
                 !.message = buildDraftMessage(built.firstName, built.messageTemplate,
                                               built.separator),
                 !.returned = TRUE]
  /\ pc' = "done"
  /\ UNCHANGED <<inputVars, selOut, runVars, detection, previous, update>>

BuildNext == BuildMessage

BuildSpec == BuildInit /\ [][BuildNext]_vars

\* detectExistingConversation alone, on the threads of up to MaxCandidates
\* candidates
MaxCandidates == 2

CandidateTexts ==
  {"", "ok", "Hey", "hello there", "Send", "View profile", "Instagram User",
   "Message...", "Following"}

Candidates == {Candidate(t, h) : t \in CandidateTexts, h \in BOOLEAN}

DetectPages ==
  {Page(th, c) : th \in BOOLEAN, c \in SeqsUpTo(Candidates, MaxCandidates)}

\* processUser at its history check, with detection enabled
DetectInit ==
  /\ sheet = <<>>
  /\ processEnv = BaseEnv
  /\ config = ConfigOf(BaseEnv)
  /\ dryRun = FALSE
  /\ pc = "detect"
  /\ RunInit
  /\ built = NoBuilt
  /\ detection \in {[NoDetection EXCEPT !.page = p] : p \in DetectPages}
  /\ previous = NoPrevious
  /\ update = NoUpdate

\* processUser: the history check on the page of detection
ScanThread ==
  /\ pc = "detect"
  /\ ~detection.returned
  /\ \E r \in {detectExistingConversation(detection.page)} :
       /\ detection' = [detection EXCEPT
                          !.hasConversation = r.hasConversation, !.reason = r.reason,
                          !.messageCount = r.messageCount, !.returned = TRUE]
       /\ events' = events \o r.calls
       /\ IF r.hasConversation
          THEN /\ result' = [result EXCEPT !.skipped = TRUE,
                                           !.error = "Existing conversation detected"]
               /\ pc' = "writeBack"
          ELSE result' = result /\ pc' = "draft"
  /\ UNCHANGED <<inputVars, selOut, sessionId, browser, tempPage, i, counters,
                 tabVars, dmResult, flags, writes, outcomes, summary, built, previous, update>>

DetectNext == ScanThread

DetectSpec == DetectInit /\ [][DetectNext]_vars

Selected == sel.returned

----------------------------------------------------------------------------
\* The pools of the selector, stated on the loaded rows by their positions

Norm(username) == ToLowerCase(Trim(username))

AnySource(row) == TRUE
SourceIsMode(row) == ToLowerCase(Trim(row.source)) = config.sourceMode
SourceOK(row) == config.sourceMode = "all" \/ SourceIsMode(row)

InPool(k, status, SrcOK(_)) ==
  /\ sel.allRows[k].status = status
  /\ SrcOK(sel.allRows[k])
  /\ Norm(sel.allRows[k].username) # ""

\* the positions of the first occurrences, in the pool of a status, of the
\* usernames that are not excluded
PoolIdx(status, excluded, SrcOK(_)) ==
  {k \in DOMAIN sel.allRows :
     /\ InPool(k, status, SrcOK)
     /\ Norm(sel.allRows[k].username) \notin excluded
     /\ \A j \in 1..(k - 1) :
          InPool(j, status, SrcOK)
            => Norm(sel.allRows[j].username) # Norm(sel.allRows[k].username)}

FirstN(S, n) == {k \in S : Cardinality({j \in S : j < k}) < n}

\* rows lists the loaded rows at the positions S, in increasing position
IsListing(rows, S) ==
  \A positions \in {S} :
    /\ Len(rows) = Cardinality(positions)
    /\ \A p \in DOMAIN rows :
         \E k \in positions :
           rows[p] = sel.allRows[k] /\ Cardinality({j \in positions : j < k}) = p - 1

PrimaryPool(SrcOK(_)) ==
  FirstN(PoolIdx(config.activateStatus, {}, SrcOK), config.maxProcess)

PrimarySelection == FirstN(PrimaryPool(SourceOK), config.maxDraft)

PrimarySelectionNames == {Norm(sel.allRows[k].username) : k \in PrimarySelection}

FallbackPool(SrcOK(_)) ==
  FirstN(PoolIdx(config.fallbackStatus, PrimarySelectionNames, SrcOK),
         config.maxProcess)

FallbackRan == config.enableFallback /\ filterStats.selectedPrimary < config.maxDraft

----------------------------------------------------------------------------
\* C1: the worklist returned by loadFilteredDatabase has at most MAX_DRAFT
\* entries, no two of them share the trimmed, lowercased username, and none has
\* an empty username.
C1_WorklistBoundedAndDeduplicated ==
  Selected =>
    /\ Len(filteredRows) <= config.maxDraft
    /\ \A p, q \in DOMAIN filteredRows :
         p # q => Norm(filteredRows[p].username) # Norm(filteredRows[q].username)
    /\ \A p \in DOMAIN filteredRows : Norm(filteredRows[p].username) # ""

\* a full worklist drawn from rows that hold a duplicated account and a row
\* without username
C1_Witness ==
  /\ Selected
  /\ config.enableFallback
  /\ Len(filteredRows) = config.maxDraft
  /\ filterStats.selectedFallback >= 1
  /\ \E j, k \in DOMAIN sel.allRows :
       j # k /\ Norm(sel.allRows[j].username) = Norm(sel.allRows[k].username)
             /\ Norm(sel.allRows[j].username) # ""
  /\ \E k \in DOMAIN sel.allRows :
       sel.allRows[k].username = "" /\ sel.allRows[k].status = config.activateStatus

\* C2: in the worklist the rows selected from the primary pool (status
\* ACTIVATE_STATUS) come before the rows selected from the fallback pool (status
\* FALLBACK_STATUS), and no fallback-selected row has the normalized username of
\* a primary-selected row.
C2_PrimaryBeforeFallback ==
  Selected =>
    LET n == filterStats.selectedPrimary
    IN /\ Len(filteredRows) = n + filterStats.selectedFallback
       /\ \A p \in DOMAIN filteredRows :
            IF p <= n
            THEN /\ filteredRows[p] = sel.selectedPrimary[p]
                 /\ filteredRows[p].status = config.activateStatus
            ELSE /\ filteredRows[p] = sel.selectedFallback[p - n]
                 /\ filteredRows[p].status = config.fallbackStatus
                 /\ \A q \in 1..n :
                      Norm(filteredRows[q].username) # Norm(filteredRows[p].username)

\* both pools contribute, and a fallback row carries the username of a
\* primary-selected row
C2_Witness ==
  /\ Selected
  /\ filterStats.selectedPrimary >= 1
  /\ filterStats.selectedFallback >= 1
  /\ \E k \in DOMAIN sel.allRows :
       /\ InPool(k, config.fallbackStatus, SourceOK)
       /\ Norm(sel.allRows[k].username) \in PrimarySelectionNames

\* C3: with fallback disabled every worklist entry has status ACTIVATE_STATUS
\* and the worklist is the first MAX_DRAFT rows of the primary eligible list,
\* whatever rows carry another status.
C3_FallbackDisabledPrimaryOnly ==
  (Selected /\ ~config.enableFallback) =>
    /\ \A p \in DOMAIN filteredRows : filteredRows[p].status = config.activateStatus
    /\ IsListing(filteredRows, PrimarySelection)

\* fallback disabled, the worklist is short of MAX_DRAFT and a row of the other
\* status would be eligible
C3_Witness ==
  /\ Selected
  /\ ~config.enableFallback
  /\ Len(filteredRows) >= 1
  /\ Len(filteredRows) < config.maxDraft
  /\ \E k \in DOMAIN sel.allRows : InPool(k, "Secondary", SourceOK)

\* C4: with fallback enabled the number of rows taken from the fallback pool is
\* min(MAX_DRAFT - selectedPrimary, fallbackEligible): zero when the primary
\* pool supplies MAX_DRAFT rows.
C4_FallbackFillsRemainder ==
  (Selected /\ config.enableFallback) =>
    /\ filterStats.selectedPrimary = Cardinality(PrimarySelection)
    /\ filterStats.selectedFallback =
         Min(config.maxDraft - filterStats.selectedPrimary,
             Cardinality(FallbackPool(SourceOK)))
    /\ Len(filteredRows) = filterStats.selectedPrimary + filterStats.selectedFallback

\* the fallback pool holds more rows than the slots the primary pool left
C4_Witness ==
  /\ Selected
  /\ config.enableFallback
  /\ filterStats.selectedPrimary >= 1
  /\ filterStats.selectedFallback >= 1
  /\ filterStats.selectedFallback < Cardinality(FallbackPool(SourceOK))
  /\ Len(filteredRows) = config.maxDraft

\* C5: with SOURCE_MODE "all" no row is left out of either pool because of its
\* source; with another SOURCE_MODE a row is kept, in the primary pool and in
\* the fallback pool alike, exactly if its trimmed, lowercased source equals
\* SOURCE_MODE.
C5_SourceFilterBothPools ==
  Selected =>
    IF config.sourceMode = "all"
    THEN /\ IsListing(sel.primaryEligible, PrimaryPool(AnySource))
         /\ FallbackRan => IsListing(sel.fallbackEligible, FallbackPool(AnySource))
    ELSE /\ IsListing(sel.primaryEligible, PrimaryPool(SourceIsMode))
         /\ FallbackRan => IsListing(sel.fallbackEligible, FallbackPool(SourceIsMode))

\* SOURCE_MODE "likes": each pool keeps a row and loses a row of another source
C5_Witness ==
  /\ Selected
  /\ config.sourceMode = "likes"
  /\ filterStats.primaryEligible >= 1
  /\ filterStats.fallbackEligible >= 1
  /\ \E k \in DOMAIN sel.allRows :
       InPool(k, config.activateStatus, AnySource) /\ ~SourceIsMode(sel.allRows[k])
  /\ \E k \in DOMAIN sel.allRows :
       InPool(k, config.fallbackStatus, AnySource) /\ ~SourceIsMode(sel.allRows[k])

RowIndexes(rows) == [p \in DOMAIN rows |-> rows[p].rowIndex]

InScenario == Selected /\ sheet = ScenarioSheet /\ config = ScenarioConfig

\* C6 as claimed: statuses [Pending, Pending, Secondary, Secondary], per-pool
\* cap 100, worklist cap 3, fallback status Secondary give the worklist
\* [row0, row2, row3], selectedPrimary = 1 and selectedFallback = 2.
C6_ScenarioAsClaimed ==
  InScenario =>
    /\ RowIndexes(filteredRows) = <<2, 4, 5>>
    /\ filterStats = [primaryEligible |-> 2, fallbackEligible |-> 2,
                      selectedPrimary |-> 1, selectedFallback |-> 2,
                      totalSelected |-> 3]

\* C6: in that scenario the worklist is [row0, row1, row2]: both Pending rows
\* are selected and the fallback pool fills the one slot left; primaryEligible
\* = 2, fallbackEligible = 2, selectedPrimary = 2, selectedFallback = 1,
\* totalSelected = 3.
C6_Scenario ==
  InScenario =>
    /\ RowIndexes(filteredRows) = <<2, 3, 4>>
    /\ filterStats = [primaryEligible |-> 2, fallbackEligible |-> 2,
                      selectedPrimary |-> 2, selectedFallback |-> 1,
                      totalSelected |-> 3]

C6_Witness == InScenario /\ Len(filteredRows) = 3

----------------------------------------------------------------------------
\* The targets of a run: the k-th target has the tab tabs[k], the outcome
\* outcomes[k] and the write-back writes[k]

\* the iteration of target k has made its decision on the tab
TabDecided(k) == k <= i \/ (k = i + 1 /\ pc \in {"pause", "summary", "done"})

Last(s) == s[Len(s)]

\* C7 as claimed: a target whose outcome is Failed has its tab closed before
\* the next target starts, in send mode as in draft-only mode.
C7_FailedTabClosed ==
  \A k \in DOMAIN outcomes :
    (outcomes[k] = "Failed" /\ TabDecided(k)) => tabs[k] = "closed"

\* the run that refutes it: send mode, a Failed target, its tab still open when
\* the iteration pauses before the next target
C7_Witness ==
  /\ pc = "pause" /\ config.sendMessage
  /\ Last(outcomes) = "Failed" /\ Len(outcomes) = i + 1
  /\ tabs[i + 1] = "open" /\ closeCalls[i + 1] = 0

\* C8 as claimed: a target whose outcome is Sent has its tab closed before the
\* next target starts, whether its write-back succeeds or throws.
C8_SentTabClosed ==
  \A k \in DOMAIN outcomes :
    (outcomes[k] = "Sent" /\ TabDecided(k)) => tabs[k] = "closed"

\* the run that refutes it: the message was sent and confirmed, the write-back
\* threw, and the tab is still open when the iteration pauses
C8_Witness ==
  /\ pc = "pause" /\ config.sendMessage
  /\ Last(outcomes) = "Sent" /\ Len(outcomes) = i + 1
  /\ Last(writes).threw
  /\ tabs[i + 1] = "open" /\ closeCalls[i + 1] = 0

\* C9: the tab of a target that ended as Drafted in draft-only mode, or as Send
\* Failed in send mode, is never closed by the run: no close() is called on it
\* and it is open in every later state, the end of the run included.
C9_DraftedAndSendFailedKeptOpen ==
  \A k \in DOMAIN outcomes :
    (\/ (~config.sendMessage /\ outcomes[k] = "Drafted")
     \/ (config.sendMessage /\ outcomes[k] = "Send Failed"))
      => (tabs[k] = "open" /\ closeCalls[k] = 0)

C9_Witness ==
  /\ pc = "done" /\ summary = "final"
  /\ Len(outcomes) >= 2
  /\ outcomes[1] \in {"Drafted", "Send Failed"}
  /\ writes[1].threw
  /\ tabs[1] = "open"

SkippedCalls == {"extractFirstName", "build", "locateInput", "type", "readSame", "readOther",
                 "verified", "enter", "enterFailed", "confirmed", "notConfirmed"}

----------------------------------------------------------------------------
\* The write-backs: a step that returns from updateDraftData appends one call
\* to writes; the row it wrote is the row of that call

WroteIn(statuses) ==
  /\ Len(writes') = Len(writes) + 1
  /\ ~Last(writes').threw
  /\ Last(writes').status \in statuses

WrittenRow == Last(writes').rowIndex - 1

\* C11 as claimed: a write-back for a Skipped or a Failed outcome leaves the
\* Message and Date Sent cells of the row as they were before the write.
C11_SkippedFailedKeepMessage ==
  [][WroteIn({"Skipped", "Failed"})
       => /\ sheet'[WrittenRow].message = sheet[WrittenRow].message
          /\ sheet'[WrittenRow].dateSent = sheet[WrittenRow].dateSent]_vars

\* the run that refutes it: the row held a message and a date of an earlier
\* run, the target failed, the read of the row succeeded (its username is still
\* there) and the 'Failed' write emptied both cells
C11_Witness ==
  \E k \in DOMAIN writes :
    LET r == writes[k].rowIndex - 1
    IN /\ writes[k].status = "Failed" /\ ~writes[k].threw
       /\ RunRows[r].message # "" /\ RunRows[r].dateSent # ""
       /\ sheet[r].username = RunRows[r].username
       /\ sheet[r].message = "" /\ sheet[r].dateSent = ""

\* C12 as claimed: a write-back with status "Send Failed" leaves the Message
\* and Date Sent cells of the row as they were before the write.
C12_SendFailedKeepsMessage ==
  [][WroteIn({"Send Failed"})
       => /\ sheet'[WrittenRow].message = sheet[WrittenRow].message
          /\ sheet'[WrittenRow].dateSent = sheet[WrittenRow].dateSent]_vars

\* the run that refutes it: the row held a message and a date, the send was
\* not confirmed, the preliminary read of the row failed and the update
\* succeeded: the row is written from an empty row
C12_Witness ==
  \E k \in DOMAIN writes :
    LET r == writes[k].rowIndex - 1
    IN /\ writes[k].status = "Send Failed" /\ ~writes[k].threw
       /\ RunRows[r].message # "" /\ RunRows[r].dateSent # ""
       /\ sheet[r].message = "" /\ sheet[r].dateSent = ""

StatusLabels == {"Drafted", "Sent", "Send Failed", "Skipped", "Failed"}

\* C13 as claimed: every updateDraftData call that writes leaves the Username,
\* Source and Date Added cells of the row as they were before the call, for
\* every status, also when the preliminary read of the row fails.
C13_KeyCellsPreserved ==
  [][WroteIn(StatusLabels)
       => /\ sheet'[WrittenRow].username = sheet[WrittenRow].username
          /\ sheet'[WrittenRow].source = sheet[WrittenRow].source
          /\ sheet'[WrittenRow].dateAdded = sheet[WrittenRow].dateAdded]_vars

\* the run that refutes it: the preliminary read failed, the update succeeded,
\* and the row of the target has lost its username, source and date added
C13_Witness ==
  \E k \in DOMAIN writes :
    LET r == writes[k].rowIndex - 1
    IN /\ ~writes[k].threw
       /\ RunRows[r].username # "" /\ RunRows[r].source # ""
       /\ RunRows[r].dateAdded # ""
       /\ sheet[r].username = "" /\ sheet[r].source = "" /\ sheet[r].dateAdded = ""
       /\ sheet[r].status = writes[k].status

\* the target of the iteration has a tab and its write-back is still to come
BeforeWriteBack == pc \in {"navigate", "openDM", "detect", "draft", "writeBack"}

\* the write-back of the target of the iteration was the latest step of run()
AfterWriteBack == pc \in {"closeSkipped", "pauseSkipped", "tabLifecycle", "pause"}

\* the terminal state that the result of processUser reports
ResultLabel ==
  IF result.skipped THEN "Skipped"
  ELSE IF ~result.success THEN "Failed"
  ELSE IF ~config.sendMessage THEN "Drafted"
  ELSE IF result.sent THEN "Sent" ELSE "Send Failed"

LoginRedirect == Len(tabs) = i + 1 /\ result.error = "Not logged in"

\* C16 as claimed: when the navigation to a profile lands on the login
\* surface the loop is aborted: run() records no per-target outcome for it (no
\* 'Failed' write-back, no counter) and goes to its fatal handler.
C16_LoginRedirectAbortsRun ==
  LoginRedirect
    => /\ Len(outcomes) < Len(tabs)
       /\ pc \in {"writeBack", "fatal", "done"}

\* the run that refutes it: the target was written back as Failed and counted
\* as an error, and the loop is about to go on to the next worklist entry
C16_Witness ==
  /\ LoginRedirect
  /\ pc = "pause"
  /\ Last(outcomes) = "Failed" /\ Last(writes).status = "Failed"
  /\ errorCount = 1
  /\ ~LimitReached /\ i + 1 < Len(filteredRows)

\* C17: in a run started with --dry-run no browser, login page or tab is ever
\* created, updateDraftData is never called and the sheet is never changed.
C17_DryRunTouchesNothing ==
  dryRun
    => /\ ~browser /\ tempPage = "none"
       /\ tabs = <<>> /\ closeCalls = <<>>
       /\ writes = <<>> /\ outcomes = <<>>
       /\ sheet = SubSeq(RunRows, 1, Len(sheet))

C17_Witness ==
  /\ dryRun /\ pc = "done" /\ summary = "dryrun"
  /\ Len(filteredRows) = 2

----------------------------------------------------------------------------
\* What the settings must be, stated on the characters of the raw values

HasText(v) == v # Null /\ \E p \in 1..Len(v) : SubSeq(v, p, p) # " "

\* v denotes a positive integer: digits only, not all of them zero, white
\* space around them allowed
DenotesPositiveInteger(v) ==
  /\ HasText(v)
  /\ \A p \in 1..Len(Trim(v)) : IsDigit(SubSeq(Trim(v), p, p))
  /\ \E p \in 1..Len(Trim(v)) : SubSeq(Trim(v), p, p) # "0"

SaysTrue(v) == v # Null /\ ToLowerCase(Trim(v)) = "true"

EnvValid(e) ==
  /\ HasText(e.INSTAGRAM_USERNAME) /\ HasText(e.GOOGLE_SHEET_ID)
  /\ HasText(e.GOOGLE_SHEET_NAME) /\ e.credentialsUsable
  /\ HasText(e.DRAFT_MESSAGE) /\ HasText(e.ACTIVATE_STATUS)
  /\ HasText(e.SOURCE_MODE)
  /\ ToLowerCase(Trim(e.SOURCE_MODE)) \in VALID_SOURCE_MODES
  /\ DenotesPositiveInteger(e.MAX_DRAFT)
  /\ DenotesPositiveInteger(e.MAX_PROCCESS)
  /\ (e.ENABLE_FALLBACK = Null
        \/ ToLowerCase(Trim(e.ENABLE_FALLBACK)) \in {"true", "false"})
  /\ SaysTrue(e.ENABLE_FALLBACK) => HasText(e.FALLBACK_STATUS)

\* the run has loaded no row, created no browser or tab, processed no target
\* and written nothing
NothingStarted ==
  /\ pc \in {"validate", "fatal", "done"}
  /\ config = NoConfig
  /\ sel = NoLocals /\ filteredRows = <<>>
  /\ ~browser /\ tempPage = "none" /\ tabs = <<>>
  /\ outcomes = <<>> /\ writes = <<>>
  /\ sheet = SubSeq(RunRows, 1, Len(sheet))

\* C18 as claimed: if a required setting is missing or invalid, ENABLE_FALLBACK
\* = true with a missing or blank FALLBACK_STATUS included, the run aborts
\* before it loads a row, creates a tab, processes a target or writes.
C18_InvalidConfigurationAborts == ~EnvValid(processEnv) => NothingStarted

\* the run that refutes it: MAX_DRAFT=2abc is taken as 2 and targets are
\* processed and written back
C18_Witness ==
  /\ processEnv.MAX_DRAFT = "2abc"
  /\ config.maxDraft = 2
  /\ pc = "done" /\ summary = "final"
  /\ Len(writes) = 2 /\ ~writes[1].threw

\* a step in which updateDraftData was called and threw
WriteThrew == Len(writes') = Len(writes) + 1 /\ Last(writes').threw

\* C19 as claimed: whenever a status write-back throws, for any outcome kind,
\* the failure is counted in errorCount, the write is not attempted again and
\* the iteration goes on to its end (the row has the one call, run() is past
\* the write-back).
C19_WriteFailureCounted ==
  [][WriteThrew
       => /\ errorCount' = errorCount + 1
          /\ pc' \in {"closeSkipped", "tabLifecycle"}
          /\ \A k \in 1..Len(writes) :
               writes[k].rowIndex # Last(writes').rowIndex]_vars

\* the run that refutes it: the 'Skipped' write threw and the run counted no
\* error
C19_Witness ==
  /\ pc = "done" /\ summary = "final"
  /\ Len(writes) = 1
  /\ writes[1].status = "Skipped" /\ writes[1].threw
  /\ skippedCount = 1 /\ errorCount = 0

----------------------------------------------------------------------------
\* The exceptions of one target, read at the return of processUser

Logged(e) == \E p \in DOMAIN events : events[p] = e

\* a flow of openDMController threw
FlowThrew ==
  /\ dmResult.calls # <<>>
  /\ \/ dmResult.flow1.error = "throw"
     \/ (Len(dmResult.calls) = 2 /\ dmResult.flow2.error = "throw")

ExceptionRaised ==
  \/ Logged("navigateError") \/ FlowThrew \/ Logged("detectError")
  \/ Logged("extractError") \/ Logged("draftError")

\* C20 as claimed: any exception raised while navigating, opening the
\* conversation, detecting history, building the message or drafting ends the
\* target as Failed.
C20_AnyExceptionFails ==
  (pc = "writeBack" /\ ExceptionRaised) => ResultLabel = "Failed"

\* C20: no exception of one target aborts the run: processUser always returns
\* and run() goes on to the write-back and the rest of the iteration. The
\* target ends as Failed, with a 'Failed' write-back, when the navigation
\* throws, when both DM flows fail or throw, or when drafting throws. An
\* exception inside the history detector or the name extraction is swallowed
\* there: the detector reports no conversation, the name falls back, and the
\* target goes on to the draft; an exception of Flow 1 is recovered by Flow 2.
C20_ExceptionsAreContained ==
  /\ [](pc = "writeBack"
          => /\ Logged("navigateError") => ResultLabel = "Failed"
             /\ (dmResult.calls # <<>> /\ ~dmResult.success) => ResultLabel = "Failed"
             /\ Logged("draftError") => ResultLabel = "Failed"
             /\ Logged("detectError") => (~result.skipped /\ Logged("extractFirstName"))
             /\ Logged("extractError") => Logged("locateInput")
             /\ (FlowThrew /\ dmResult.success)
                  => (dmResult.used = "flow2" /\ ~Logged("navigateError")))
  /\ []((AfterWriteBack /\ ResultLabel = "Failed")
          => (Last(writes).status = "Failed" /\ Last(outcomes) = "Failed"))
  /\ [][(BeforeWriteBack \/ AfterWriteBack) => pc' # "fatal"]_vars
  /\ [][pc = "pause" => pc' \in {"loop", "summary"}]_vars

\* the second target of a run whose first target failed: its detector and its
\* name extraction threw, it went on to the draft, and the draft threw
C20_Witness ==
  /\ pc = "writeBack"
  /\ Len(tabs) = 2 /\ outcomes = <<"Failed">>
  /\ Logged("detectError") /\ Logged("extractError") /\ Logged("draftError")
  /\ FlowThrew
  /\ ResultLabel = "Failed"

----------------------------------------------------------------------------
\* The send of one target, read at the return of processUser

\* the positions of events at which sendMessage was called
Submissions == {p \in DOMAIN events : events[p] \in {"enter", "enterFailed"}}

\* the positions at which ENTER was pressed
Presses == {p \in DOMAIN events : events[p] = "enter"}

\* the positions at which confirmMessageSent returned false
FailedConfirmations == {p \in DOMAIN events : events[p] = "notConfirmed"}

\* C21: for one target sendMessage is called at most twice; a second call comes
\* right after the failed confirmation that followed the first ENTER press, and
\* nothing follows a second failed confirmation.
C21_AtMostTwoSubmissions ==
  pc = "writeBack"
    => /\ Cardinality(Submissions) <= 2
       /\ \A p \in Submissions, q \in Submissions :
            p < q => (q = p + 2 /\ events[p] = "enter" /\ events[p + 1] = "notConfirmed")
       /\ Cardinality(FailedConfirmations) <= 2
       /\ Cardinality(FailedConfirmations) = 2
            => (Last(events) = "notConfirmed" /\ Cardinality(Submissions) = 2)

\* a target whose two ENTER presses were both followed by a failed confirmation
C21_Witness ==
  /\ pc = "writeBack"
  /\ Cardinality(Presses) = 2
  /\ Cardinality(FailedConfirmations) = 2
  /\ result.success /\ ~result.sent

\* the draft of the target was typed and its read-back verified, in send mode
VerifiedInSendMode == pc = "writeBack" /\ config.sendMessage /\ Logged("verified")

\* the latest confirmMessageSent of the target returned true
Confirmed == events # <<>> /\ Last(events) = "confirmed"

\* C22: in send mode a target whose draft was verified is reported, counted and
\* written as Sent when the confirmation after the first ENTER press or after
\* the single retry succeeded, and as Send Failed otherwise; a first
\* confirmation that fails followed by a retry that is confirmed gives Sent
\* with exactly two ENTER presses.
C22_SentIffConfirmed ==
  /\ [](VerifiedInSendMode
          => /\ result.success
             /\ result.sent = Confirmed
             /\ ResultLabel = (IF Confirmed THEN "Sent" ELSE "Send Failed")
             /\ (Confirmed /\ FailedConfirmations # {})
                  => (Cardinality(Presses) = 2 /\ Cardinality(Submissions) = 2
                      /\ Cardinality(FailedConfirmations) = 1))
  /\ [][VerifiedInSendMode
          => /\ Last(outcomes') = (IF Confirmed THEN "Sent" ELSE "Send Failed")
             /\ Last(writes').status = Last(outcomes')
             /\ sentCount' = sentCount + (IF Confirmed THEN 1 ELSE 0)
             /\ sendFailedCount' = sendFailedCount + (IF Confirmed THEN 0 ELSE 1)]_vars

\* a target whose first confirmation failed and whose retry was confirmed,
\* reported as sent
C22_Witness ==
  /\ VerifiedInSendMode
  /\ Confirmed /\ Cardinality(FailedConfirmations) = 1
  /\ Cardinality(Presses) = 2
  /\ result.sent

----------------------------------------------------------------------------
\* The result of openDMController, read until the write-back of its target

\* C23: openDMController calls Flow 1 first and Flow 2 only when Flow 1
\* reported success=false or threw; what a flow throws becomes a failure result
\* of that flow and the controller returns to processUser; Flow 1 failing and
\* Flow 2 succeeding gives success=true with used='flow2'; both failing gives
\* success=false, used='none' and the failure results of both flows.
C23_Flow2OnlyAfterFlow1Failed ==
  /\ [](dmResult.calls # <<>>
          => /\ dmResult.calls[1] = "flow1"
             /\ dmResult.flow1.method = "flow1"
             /\ IF dmResult.flow1.success
                THEN /\ dmResult.calls = <<"flow1">>
                     /\ dmResult.success /\ dmResult.used = "flow1"
                     /\ dmResult.flow2 = NullFlow
                ELSE /\ dmResult.calls = <<"flow1", "flow2">>
                     /\ dmResult.flow1.error \in {"fail", "throw"}
                     /\ dmResult.flow2.method = "flow2"
                     /\ dmResult.success = dmResult.flow2.success
                     /\ dmResult.used = (IF dmResult.flow2.success THEN "flow2" ELSE "none")
                     /\ ~dmResult.flow2.success
                          => dmResult.flow2.error \in {"fail", "throw"})
  /\ [][pc = "openDM"
          => /\ pc' = (IF dmResult'.success THEN AfterOpenDM(config) ELSE "writeBack")
             /\ result'.error = (IF dmResult'.success THEN Null ELSE "Failed to open DM")
             /\ dmResult'.calls # <<>>]_vars

\* Flow 1 threw and Flow 2 opened the conversation
C23_Witness ==
  /\ dmResult.calls = <<"flow1", "flow2">>
  /\ dmResult.flow1.error = "throw" /\ ~dmResult.flow1.success
  /\ dmResult.success /\ dmResult.used = "flow2"
  /\ pc \in {"detect", "draft"}

----------------------------------------------------------------------------
\* The order of the steps of one target

\* the step of processUser that an event belongs to: 1 navigate, 2 open the
\* conversation, 3 history check, 4 build the message, 5 draft, 6 send
StepOf(e) ==
  IF e \in {"navigate", "navigateError"} THEN 1
  ELSE IF e \in {"flow1", "flow2"} THEN 2
  ELSE IF e \in {"detect", "detectError"} THEN 3
  ELSE IF e \in {"extractFirstName", "extractError", "build"} THEN 4
  ELSE IF e \in {"locateInput", "type", "draftError", "readSame", "readOther", "verified"} THEN 5
  ELSE 6

StepsLogged == {StepOf(events[p]) : p \in DOMAIN events}

\* C24: the steps of one target occur in the order navigate, open conversation,
\* history check (only when enabled), build message, draft, send, none of them
\* before the one it follows; after a failed open the target is Failed and no
\* history check, draft or send was attempted; no draft is attempted unless the
\* conversation was opened; sendMessage is called only after the read-back of
\* the typed text was verified.
C24_StepsInOrder ==
  /\ \A p \in DOMAIN events :
       /\ p > 1 => StepOf(events[p - 1]) <= StepOf(events[p])
       /\ (StepOf(events[p]) > 1) => events[1] = "navigate"
       /\ (StepOf(events[p]) > 2) => (dmResult.success /\ 2 \in StepsLogged)
       /\ (StepOf(events[p]) = 3) => config.detectConversation
       /\ (StepOf(events[p]) > 3 /\ config.detectConversation) => 3 \in StepsLogged
       /\ (StepOf(events[p]) = 5) => 4 \in StepsLogged
       /\ (StepOf(events[p]) = 6)
            => \E v \in 1..(p - 1) : events[v] = "verified"
  /\ (pc = "writeBack" /\ dmResult.calls # <<>> /\ ~dmResult.success)
       => /\ ResultLabel = "Failed"
          /\ StepsLogged = {1, 2}
  /\ pc \in {"detect", "draft"} => dmResult.success

\* a target in send mode with history check that went through all six steps
C24_Witness ==
  /\ pc = "writeBack"
  /\ StepsLogged = 1..6
  /\ Cardinality(Submissions) = 2

----------------------------------------------------------------------------
\* Draft-only mode

SendEvents == {"enter", "enterFailed", "confirmed", "notConfirmed"}

\* C25: with send mode disabled sendMessage is never called and no target is
\* counted or written as Sent or Send Failed; a target whose draft was verified
\* is counted as Drafted, and its write-back carries status 'Drafted', the
\* drafted message and a timestamp, which the sheet holds when the write does
\* not throw.
C25_DraftOnlyNeverSends ==
  /\ [](~config.sendMessage
          => /\ \A p \in DOMAIN events : events[p] \notin SendEvents
             /\ sentCount = 0 /\ sendFailedCount = 0 /\ ~messageSent
             /\ \A k \in DOMAIN outcomes : outcomes[k] \notin {"Sent", "Send Failed"})
  /\ [][(pc = "writeBack" /\ ~config.sendMessage /\ Logged("verified"))
          => /\ Last(outcomes') = "Drafted"
             /\ draftedCount' = draftedCount + 1
             /\ Last(writes').status = "Drafted"
             /\ Last(writes').rowIndex = targetRow.rowIndex
             /\ Last(writes').message = result.message
             /\ result.message \in {buildDraftMessage(n, DraftTemplate, "!") : n \in PageFirstNames}
             /\ Last(writes').dateSent = Timestamp
             /\ ~Last(writes').threw
                  => /\ sheet'[targetRow.rowIndex - 1].status = "Drafted"
                     /\ sheet'[targetRow.rowIndex - 1].message = result.message
                     /\ sheet'[targetRow.rowIndex - 1].dateSent = Timestamp]_vars

\* a verified draft in draft-only mode, written as Drafted with its message
C25_Witness ==
  /\ pc = "tabLifecycle"
  /\ ~config.sendMessage
  /\ Last(outcomes) = "Drafted"
  /\ Last(writes).status = "Drafted" /\ ~Last(writes).threw
  /\ Last(writes).message = "Hey John! Thanks."
  /\ sheet[targetRow.rowIndex - 1].message = "Hey John! Thanks."
  /\ draftedCount = 2

----------------------------------------------------------------------------
\* The MAX_DRAFT limit of the loop

CountOf(label) == Cardinality({k \in DOMAIN outcomes : outcomes[k] = label})

\* the number of successes the limit is about: Sent outcomes in send mode,
\* Drafted outcomes in draft-only mode
SuccessCount == IF config.sendMessage THEN CountOf("Sent") ELSE CountOf("Drafted")

\* processUser is running, or about to run, on the target of the iteration
Processing == pc \in {"navigate", "openDM", "detect", "draft"}

\* C26: no target is processed once the number of successes has reached
\* MAX_DRAFT, the successes being the Sent outcomes in send mode and the Drafted
\* outcomes in draft-only mode; the counter the limit reads equals that number;
\* an iteration that ends with the limit reached ends the loop, and one that
\* ends below it (Send Failed, Skipped and Failed not counting) goes on to the
\* next entry; the number of successes never exceeds MAX_DRAFT.
C26_LimitStopsLoop ==
  /\ [](pc \notin {"validate", "fatal", "done"}
          => /\ sentCount = CountOf("Sent")
             /\ draftedCount = CountOf("Drafted")
             /\ sendFailedCount = CountOf("Send Failed")
             /\ skippedCount = CountOf("Skipped")
             /\ SuccessCount <= config.maxDraft
             /\ Processing => SuccessCount < config.maxDraft)
  /\ [][pc = "loop" /\ SuccessCount >= config.maxDraft => pc' = "summary"]_vars
  /\ [][pc = "pause"
          => IF SuccessCount >= config.maxDraft
             THEN pc' = "summary" /\ UNCHANGED <<i, tabs, writes, outcomes>>
             ELSE pc' = "loop" /\ i' = i + 1]_vars

\* a run in send mode that goes on after its first Sent outcome and whose loop
\* is ended by the limit check after the second, which reaches MAX_DRAFT
C26_Witness ==
  /\ pc = "summary"
  /\ config.sendMessage /\ config.maxDraft = 2
  /\ outcomes = <<"Sent", "Sent">>
  /\ sentCount = 2 /\ i = 1

----------------------------------------------------------------------------
\* The summary that ends a run

\* the lines of the summary that run() logged last
SummaryLines ==
  IF summary = "final"
  THEN {"sessionId", "processed", "skipped", "errors", "duration"}
         \cup (IF config.sendMessage THEN {"sent", "sendFailed"} ELSE {"drafted"})
  ELSE IF summary = "empty" THEN {"sessionId", "processed", "duration"}
  ELSE IF summary = "dryrun" THEN {"sessionId", "wouldProcess", "available", "duration"}
  ELSE IF summary = "fatal" THEN {"sessionId", "duration"}
  ELSE {}

\* the summary reports the counts by outcome category
ReportsCounts ==
  /\ {"skipped", "errors"} \subseteq SummaryLines
  /\ ("drafted" \in SummaryLines \/ {"sent", "sendFailed"} \subseteq SummaryLines)

\* C27 as claimed: every run ends with a summary; the summary of a run that had
\* a worklist to process, whether the loop completed or a fatal error ended
\* it, reports the counts by outcome category; a fatal error closes no tab.
C27_EveryRunReportsCounts ==
  pc = "done"
    => /\ summary # "none"
       /\ (Len(filteredRows) > 0 /\ ~dryRun) => ReportsCounts
       /\ summary = "fatal" => \A k \in DOMAIN tabs : closeCalls[k] <= 1

\* a run ended by a fatal error after one target was drafted: its summary
\* holds the session ID and the duration only, with the browser left open
C27_Witness ==
  /\ pc = "done" /\ summary = "fatal"
  /\ browser
  /\ Len(outcomes) = 1 /\ Len(tabs) = 1
  /\ draftedCount = 1
  /\ ~ReportsCounts

----------------------------------------------------------------------------
\* buildDraftMessage

\* the 0-based index of the first occurrence of separator in s, stated by what
\* a first occurrence is
IsFirstOccurrence(s, separator, k) ==
  /\ SubSeq(s, k + 1, k + Len(separator)) = separator
  /\ \A j \in 0..(k - 1) : SubSeq(s, j + 1, j + Len(separator)) # separator

Occurs(s, separator) ==
  \E k \in 0..(Len(s) - Len(separator)) : SubSeq(s, k + 1, k + Len(separator)) = separator

----------------------------------------------------------------------------
\* The verification of the draft

\* draftMessage found no input on the page
NoInputFound == Logged("locateInput") /\ ~Logged("type")

\* C29: a target is reported as drafted only if the text read back from the
\* input equals the message asked for, both trimmed; when no input is found or
\* the text read back differs, draftMessage reports failure, sendMessage is not
\* called, and the target is reported, counted and written as Failed.
C29_SuccessOnlyIfReadBackMatches ==
  /\ [](pc = "writeBack"
          => /\ result.success => (Logged("readSame") /\ Logged("verified"))
             /\ Logged("verified") => Logged("readSame")
             /\ (NoInputFound \/ Logged("readOther"))
                  => /\ ~result.success /\ ~result.skipped
                     /\ Submissions = {}
                     /\ ResultLabel = "Failed")
  /\ [][(pc = "writeBack" /\ (NoInputFound \/ Logged("readOther")))
          => /\ Last(outcomes') = "Failed"
             /\ Last(writes').status = "Failed"
             /\ errorCount' = errorCount + 1]_vars

\* in send mode, a target whose read-back differed from the message
C29_Witness ==
  /\ pc = "writeBack"
  /\ config.sendMessage
  /\ Logged("readOther")
  /\ ~result.success
  /\ Submissions = {}

----------------------------------------------------------------------------
\* detectExistingConversation

\* a candidate survives the filters: its text is not empty, it is not in a
\* header, it holds none of the boilerplate words, and it is longer than 2
Survives(c) ==
  /\ c.text # ""
  /\ ~c.isInHeader
  /\ \A word \in Boilerplate :
       \A k \in 1..(Len(c.text) - Len(word) + 1) :
         SubSeq(ToLowerCase(c.text), k, k + Len(word) - 1) # word
  /\ Len(c.text) > 2

Survivors ==
  {k \in DOMAIN detection.page.rawCandidates : Survives(detection.page.rawCandidates[k])}

----------------------------------------------------------------------------
\* One target at a time

\* C31: the targets are processed in worklist order, one at a time. Each
\* iteration creates one new tab, and only after the outcome of every earlier
\* target was written back and its tab closed or kept; the write-back of
\* target k is for the k-th worklist entry; once the iteration of a target is
\* over, its tab is not touched again.
C31_OneTargetAtATime ==
  /\ [](/\ Len(tabs) = Len(closeCalls)
        /\ Len(writes) = Len(outcomes)
        /\ Len(outcomes) <= Len(tabs) /\ Len(tabs) <= Len(outcomes) + 1
        /\ Len(tabs) <= Len(filteredRows)
        /\ Len(tabs) \in {i, i + 1}
        /\ (Processing \/ pc = "writeBack")
             => (Len(tabs) = i + 1 /\ Len(outcomes) = i /\ tabs[i + 1] = "open")
        /\ \A k \in DOMAIN writes : writes[k].rowIndex = filteredRows[k].rowIndex)
  /\ [][tabs' # tabs
          => \/ /\ pc = "loop" /\ pc' = "navigate"
                /\ tabs' = Append(tabs, "open")
                /\ Len(outcomes) = Len(tabs)
                /\ \A k \in DOMAIN tabs : TabDecided(k)
             \/ /\ pc \in {"closeSkipped", "tabLifecycle"}
                /\ Len(tabs) = i + 1 /\ Len(tabs') = Len(tabs)
                /\ tabs[i + 1] = "open" /\ tabs'[i + 1] = "closed"
                /\ \A k \in 1..i : tabs'[k] = tabs[k]]_vars
  /\ [][/\ \A k \in 1..i : tabs'[k] = tabs[k] /\ closeCalls'[k] = closeCalls[k]
        /\ pc \in {"pauseSkipped", "pause", "summary", "fatal", "done"}
             => (tabs' = tabs /\ closeCalls' = closeCalls)]_vars
  /\ [][events' # events /\ events' # <<>> => (Len(tabs) = i + 1 /\ Len(outcomes) = i)]_vars

\* the second target is being processed in its own tab, after the tab of the
\* first was closed
C31_Witness ==
  /\ pc = "draft"
  /\ i = 1 /\ Len(tabs) = 2
  /\ tabs = <<"closed", "open">>
  /\ Len(outcomes) = 1 /\ Len(writes) = 1

----------------------------------------------------------------------------
\* Two consecutive runs

\* the targets the run gave the outcome Sent or Drafted
Succeeded ==
  {filteredRows[k].username : k \in {n \in DOMAIN outcomes : outcomes[n] \in {"Sent", "Drafted"}}}

\* the operator starts the program again once it has ended: run() is called
\* anew with the same .env and the sheet as the run before left it, and every
\* local of run() starts afresh
StartNextRun ==
  /\ pc = "done"
  /\ previous.runs = 0
  /\ previous' = [runs |-> 1, succeeded |-> Succeeded,
                  writeThrew |-> \E k \in DOMAIN writes : writes[k].threw]
  /\ pc' = "validate"
  /\ config' = NoConfig
  /\ sessionId' \in SessionIds
  /\ browser' = FALSE
  /\ tempPage' = "none"
  /\ i' = 0
  /\ draftedCount' = 0 /\ sentCount' = 0 /\ skippedCount' = 0
  /\ errorCount' = 0 /\ sendFailedCount' = 0
  /\ tabs' = <<>>
  /\ closeCalls' = <<>>
  /\ result' = NoResult
  /\ dmResult' = NoDmResult
  /\ draftingSucceeded' = FALSE
  /\ messageSent' = FALSE
  /\ events' = <<>>
  /\ writes' = <<>>
  /\ outcomes' = <<>>
  /\ summary' = "none"
  /\ filteredRows' = <<>>
  /\ filterStats' = NoStats
  /\ sel' = NoLocals
  /\ UNCHANGED <<sheet, dryRun, processEnv, built, detection, update>>

\* the sheets of the reruns: two leads, the same lead entered twice, no lead
RerunSheets ==
  {<<SheetRow("user1", "likes", "Pending"), SheetRow("user2", "likes", "Pending")>>,
   <<SheetRow("user1", "likes", "Pending"), SheetRow("User1 ", "comments", "Pending")>>,
   <<>>}

RerunEnvs == {ValidEnv(2, FALSE, TRUE), ValidEnv(1, TRUE, FALSE)}

RerunInit ==
  /\ sheet \in RerunSheets
  /\ processEnv \in RerunEnvs
  /\ config = NoConfig
  /\ dryRun \in BOOLEAN
  /\ pc = "validate"
  /\ RunInit
  /\ built = NoBuilt
  /\ detection = NoDetection
  /\ previous = NoPrevious
  /\ update = NoUpdate

RerunNext == Next \/ StartNextRun

RerunSpec == RerunInit /\ [][RerunNext]_vars

\* C32, as the specification words it: in the second of two consecutive runs
\* with the same configuration and an unedited sheet, where ACTIVATE_STATUS and
\* FALLBACK_STATUS are no outcome labels, no target that the first run gave the
\* outcome Sent or Drafted is in the worklist, and none is messaged again
C32_RerunsAreIdempotent ==
  (/\ previous.runs = 1
   /\ config # NoConfig
   /\ config.activateStatus \notin {"Sent", "Drafted", "Send Failed", "Skipped", "Failed"})
    => /\ \A k \in DOMAIN filteredRows : filteredRows[k].username \notin previous.succeeded
       /\ pc \in {"draft", "writeBack"} => targetRow.username \notin previous.succeeded

\* the second run is about to message a target the first run messaged
C32_Witness ==
  /\ previous.runs = 1
  /\ pc = "draft"
  /\ targetRow.username \in previous.succeeded

----------------------------------------------------------------------------
\* The order and the limit of each pool

RowIndexIncreases(rows) ==
  \A p, q \in DOMAIN rows : p < q => rows[p].rowIndex < rows[q].rowIndex

\* every row of rows is the first row of the sheet, among those with the status
\* and an admitted source, that carries its username
KeepsFirstOccurrence(rows, status) ==
  \A p \in DOMAIN rows :
    \A k \in DOMAIN sel.allRows :
      (/\ InPool(k, status, SourceOK)
       /\ Norm(sel.allRows[k].username) = Norm(rows[p].username))
        => sel.allRows[k].rowIndex >= rows[p].rowIndex

\* C33: within each pool the eligible rows keep the store order (strictly
\* increasing rowIndex), the row kept for a username is its first occurrence in
\* that pool, and the truncation to MAX_PROCCESS comes after the deduplication:
\* each pool holds at most MAX_PROCCESS rows, which are the first occurrences
\* of the first MAX_PROCCESS distinct usernames, so a duplicate never takes a
\* slot.
C33_PoolOrderAndLimit ==
  Selected =>
    /\ RowIndexIncreases(sel.primaryEligible)
    /\ KeepsFirstOccurrence(sel.primaryEligible, config.activateStatus)
    /\ Len(sel.primaryEligible) <= config.maxProcess
    /\ IsListing(sel.primaryEligible, PrimaryPool(SourceOK))
    /\ FallbackRan =>
         /\ RowIndexIncreases(sel.fallbackEligible)
         /\ KeepsFirstOccurrence(sel.fallbackEligible, config.fallbackStatus)
         /\ Len(sel.fallbackEligible) <= config.maxProcess
         /\ IsListing(sel.fallbackEligible, FallbackPool(SourceOK))

\* MAX_PROCCESS is 2 and the primary pool holds an account twice ahead of
\* another account: the pool is the first and the third of these rows
C33_Witness ==
  /\ Selected
  /\ config.maxProcess = 2
  /\ \E j, k, m \in DOMAIN sel.allRows :
       /\ j < k /\ k < m
       /\ \A n \in {j, k, m} : InPool(n, config.activateStatus, SourceOK)
       /\ Norm(sel.allRows[j].username) = Norm(sel.allRows[k].username)
       /\ sel.primaryEligible = <<sel.allRows[j], sel.allRows[m]>>

----------------------------------------------------------------------------
\* The empty worklist

EmptyWorklist == Selected /\ Len(filteredRows) = 0

\* C34: if the worklist is empty the run ends at once with zero targets
\* processed, in normal mode as in dry-run mode: the summary of the early exit
\* is logged, no browser, login page or tab is created, no target is taken up,
\* no write to the store is made, and run() takes no further step.
C34_EmptyWorklistEndsRun ==
  /\ [](EmptyWorklist =>
          /\ pc = "done"
          /\ summary = "empty"
          /\ ~browser /\ tempPage = "none"
          /\ tabs = <<>> /\ closeCalls = <<>>
          /\ writes = <<>> /\ outcomes = <<>> /\ events = <<>>
          /\ i = 0
          /\ draftedCount + sentCount + sendFailedCount + skippedCount + errorCount = 0)
  /\ [][~EmptyWorklist]_vars
  /\ [][EmptyWorklist' => sheet' = sheet]_vars

\* a run in normal mode whose sheet holds no eligible row has ended
C34_Witness ==
  /\ EmptyWorklist
  /\ ~dryRun
  /\ pc = "done"
  /\ summary = "empty"

----------------------------------------------------------------------------
\* The tabs left open at the end of the run

OpenTabs == {k \in DOMAIN tabs : tabs[k] = "open"}

TargetsWith(label) == {k \in DOMAIN outcomes : outcomes[k] = label}

\* C35, as the specification words it: when a run has completed its loop, the
\* tabs left open are those of the targets with outcome Drafted in draft-only
\* mode, draftedCount of them, and those of the targets with outcome Send
\* Failed in send mode, sendFailedCount of them.
C35_OpenTabsAreReported ==
  (pc = "done" /\ summary = "final") =>
    IF config.sendMessage
    THEN OpenTabs = TargetsWith("Send Failed") /\ Cardinality(OpenTabs) = sendFailedCount
    ELSE OpenTabs = TargetsWith("Drafted") /\ Cardinality(OpenTabs) = draftedCount

\* a run in send mode has ended; its only target is Failed, its write-back went
\* through, no send failed, and the tab of the target is open
C35_Witness ==
  /\ pc = "done" /\ summary = "final"
  /\ config.sendMessage
  /\ outcomes = <<"Failed">>
  /\ ~writes[1].threw
  /\ sendFailedCount = 0
  /\ tabs = <<"open">>

----------------------------------------------------------------------------
\* The counters of the run loop

CounterSum == draftedCount + sentCount + sendFailedCount + skippedCount + errorCount

\* between two iterations of the loop, and after the last one
IterationBoundary == pc \in {"loop", "summary"} \/ (pc = "done" /\ summary = "final")

\* C36, as the specification words it: at every iteration boundary of the run
\* loop the five counters add up to the number of targets processed so far,
\* each target being counted in exactly one counter, also when its write-back
\* throws.
C36_CountersPartitionTargets ==
  IterationBoundary => CounterSum = Len(outcomes)

\* the loop is about to take its second target; the first was sent and
\* confirmed, its write-back threw, and it is counted as sent and as an error
C36_Witness ==
  /\ pc = "loop" /\ i = 1
  /\ outcomes = <<"Sent">>
  /\ writes[1].threw
  /\ sentCount = 1 /\ errorCount = 1
  /\ draftedCount + sendFailedCount + skippedCount = 0

----------------------------------------------------------------------------
\* Progress of the run loop

\* run() is one asynchronous function: every await of it returns or throws
\* (the page operations have timeouts, the delays are finite), so a step that
\* can be taken is taken; every step moves the position of run()
FairEnvs ==
  {ValidEnv(md, FALSE, sm) : md \in 1..MaxDraftBound, sm \in BOOLEAN}
    \cup {ValidEnv(1, TRUE, FALSE)}

FairInit ==
  /\ sheet \in RunSheets
  /\ processEnv \in FairEnvs
  /\ config = NoConfig
  /\ dryRun \in BOOLEAN
  /\ pc = "validate"
  /\ RunInit
  /\ built = NoBuilt
  /\ detection = NoDetection
  /\ previous = NoPrevious
  /\ update = NoUpdate

FairSpec == FairInit /\ [][Next]_vars /\ WF_pc(Next)

\* the targets the loop has finished with
Processed == Len(outcomes)

LoopCompleted ==
  /\ pc = "done" /\ summary = "final"
  /\ Processed = Len(filteredRows)
  /\ Len(tabs) = Len(filteredRows)
  /\ \A k \in DOMAIN filteredRows : writes[k].rowIndex = filteredRows[k].rowIndex

\* C37: absent a fatal error every worklist entry is eventually processed. The
\* worklist has at most MAX_DRAFT entries, so the limit check is never met while
\* an unprocessed entry remains, the loop is left only with every entry
\* processed, and a run that reaches the loop ends, with as many iterations as
\* the worklist has entries unless a fatal error ended it.
C37_EveryEntryProcessed ==
  /\ [](Selected => Len(filteredRows) <= config.maxDraft)
  /\ []((pc \in {"loop", "pause"} /\ LimitReached) => Processed = Len(filteredRows))
  /\ []((pc = "summary" \/ (pc = "done" /\ summary = "final")) =>
          (Processed = Len(filteredRows) /\ Len(tabs) = Len(filteredRows)))
  /\ (pc = "browser") ~> (LoopCompleted \/ (pc = "done" /\ summary = "fatal"))

\* a run in send mode has completed its loop over a full worklist of MAX_DRAFT
\* entries, every one of them sent
C37_Witness ==
  /\ LoopCompleted
  /\ config.sendMessage
  /\ config.maxDraft = 2
  /\ Len(filteredRows) = 2
  /\ sentCount = 2

----------------------------------------------------------------------------
\* The calls of close()

\* C38: close() is called at most once on every tab the run loop created: a
\* tab is closed exactly when close() was called on it once, the
\* end-of-iteration lifecycle step is only reached with a tab that no branch
\* has closed and whose target is not Skipped, and the tab of a Skipped target
\* has had its one call when the iteration ends.
C38_CloseCalledAtMostOnce ==
  /\ Len(closeCalls) = Len(tabs)
  /\ \A k \in DOMAIN tabs :
       /\ closeCalls[k] <= 1
       /\ tabs[k] = "closed" <=> closeCalls[k] = 1
       /\ (k \in DOMAIN outcomes /\ outcomes[k] = "Skipped" /\ TabDecided(k))
            => closeCalls[k] = 1
  /\ pc = "tabLifecycle" =>
       /\ closeCalls[userPage] = 0
       /\ Len(outcomes) = userPage
       /\ outcomes[userPage] # "Skipped"

\* draft-only mode: the first target was Skipped and its tab closed in that
\* branch, the second target failed and its tab was closed by the lifecycle step
C38_Witness ==
  /\ pc = "pause" /\ i = 1
  /\ ~config.sendMessage
  /\ outcomes = <<"Skipped", "Failed">>
  /\ tabs = <<"closed", "closed">>
  /\ closeCalls = <<1, 1>>

----------------------------------------------------------------------------
\* The row index of the loaded rows

\* loadDatabaseRows alone, on every sheet of the bounds
LoadInit ==
  /\ sheet \in SeqsUpTo(SelSheetRows, MaxRows) \cup FixtureSheets
  /\ processEnv = BaseEnv
  /\ config = ConfigOf(BaseEnv)
  /\ dryRun = FALSE
  /\ pc = "loadRows"
  /\ RunInit
  /\ built = NoBuilt
  /\ detection = NoDetection
  /\ previous = NoPrevious
  /\ update = NoUpdate

LoadRows ==
  /\ pc = "loadRows"
  /\ sel' = [sel EXCEPT !.allRows = loadDatabaseRows(sheet), !.returned = TRUE]
  /\ pc' = "done"
  /\ UNCHANGED <<unitVars, inputVars, filteredRows, filterStats, runVars>>

LoadNext == LoadRows

LoadSpec == LoadInit /\ [][LoadNext]_vars

\* the sheet row a row index stands for: the header is row 1 and sheet holds
\* the rows from row 2 on
SheetPosition(rowIndex) == rowIndex - 1

OutcomeLabels == {"Drafted", "Sent", "Send Failed", "Skipped", "Failed"}

\* C39: loadDatabaseRows gives every row it returns the 1-based number of its
\* sheet row (the first data row is row 2): the returned row holds the trimmed
\* cells of that sheet row, every row that is not blank is returned once and in
\* sheet order, blank rows are left out without moving the numbers of the rows
\* after them, and a write-back with the rowIndex of a returned row changes the
\* sheet row it was read from and no other row.
C39_RowIndexIsSheetRow ==
  Selected =>
    /\ \A p \in DOMAIN sel.allRows :
         \A n \in {SheetPosition(sel.allRows[p].rowIndex)} :
            /\ n \in DOMAIN sheet
            /\ sel.allRows[p].rowIndex >= 2
            /\ ~IsBlankRow(sheet[n])
            /\ sel.allRows[p].username = Norm(sheet[n].username)
            /\ sel.allRows[p].status = Trim(sheet[n].status)
            /\ sel.allRows[p].source = Trim(sheet[n].source)
    /\ \A n \in DOMAIN sheet :
         ~IsBlankRow(sheet[n]) =>
           \E p \in DOMAIN sel.allRows : sel.allRows[p].rowIndex = n + 1
    /\ RowIndexIncreases(sel.allRows)
    /\ \A p \in DOMAIN sel.allRows : \A status \in OutcomeLabels :
         \A n \in {SheetPosition(sel.allRows[p].rowIndex)} :
         \A after \in {updateDraftData(sheet, sel.allRows[p].rowIndex, "1767225600000",
                                       "", "", status, TRUE)} :
           /\ DOMAIN after = DOMAIN sheet
           /\ after[n].status = status
           /\ Norm(after[n].username) = sel.allRows[p].username
           /\ \A m \in DOMAIN sheet : m # n => after[m] = sheet[m]

\* a row returned by loadDatabaseRows that comes after a blank row of the sheet
C39_Witness ==
  /\ Selected
  /\ pc = "done"
  /\ \E p \in DOMAIN sel.allRows :
       \E n \in DOMAIN sheet :
         /\ n < SheetPosition(sel.allRows[p].rowIndex)
         /\ IsBlankRow(sheet[n])

----------------------------------------------------------------------------
\* updateDraftData next to another writer of the sheet

\* the cells updateDraftData is meant to leave as they are
KeptCells == {"username", "source", "dateAdded", "name", "bio"}

EditedValues == {"edited", ""}

\* one call of updateDraftData, for a row of the sheet and a status
UpdateInit ==
  /\ sheet \in RunSheets \ {<<>>}
  /\ processEnv = BaseEnv
  /\ config = ConfigOf(BaseEnv)
  /\ dryRun = FALSE
  /\ pc = "updateRead"
  /\ RunInit
  /\ built = NoBuilt
  /\ detection = NoDetection
  /\ previous = NoPrevious
  /\ \E n \in DOMAIN sheet, status \in OutcomeLabels :
       update = [NoUpdate EXCEPT !.rowIndex = n + 1, !.status = status]

\* updateDraftData: sheets.spreadsheets.values.get of the row
ReadRow ==
  /\ pc = "updateRead"
  /\ \E readOk \in BOOLEAN :
       update' = [update EXCEPT !.currentRow = ReadCurrentRow(sheet, update.rowIndex, readOk)]
  /\ pc' = "updateWrite"
  /\ UNCHANGED <<inputVars, selOut, runVars, built, detection, previous>>

\* the operator, or another program, changes one of the kept cells of the row;
\* the sheet is shared and nothing holds the other writer back during the call
OtherWriter ==
  /\ pc \in {"updateRead", "updateWrite"}
  /\ update.edit = NoEdit
  /\ \E cell \in KeptCells, value \in EditedValues :
       /\ sheet[update.rowIndex - 1][cell] # value
       /\ sheet' = [sheet EXCEPT ![update.rowIndex - 1][cell] = value]
       /\ update' = [update EXCEPT !.edit = [cell |-> cell, value |-> value]]
  /\ UNCHANGED <<config, dryRun, processEnv, pc, selOut, runVars, built, detection, previous>>

\* updateDraftData: sheets.spreadsheets.values.update of the whole row A:I
WriteRow ==
  /\ pc = "updateWrite"
  /\ \E threw \in BOOLEAN :
       IF threw THEN sheet' = sheet /\ update' = update
       ELSE /\ sheet' = [sheet EXCEPT ![update.rowIndex - 1] =
                           UpdatedRow(update.currentRow, sessionId, Timestamp,
                                      DraftTemplate, update.status)]
            /\ update' = [update EXCEPT !.written = TRUE]
  /\ pc' = "done"
  /\ UNCHANGED <<config, dryRun, processEnv, selOut, runVars, built, detection, previous>>

UpdateNext == ReadRow \/ OtherWriter \/ WriteRow

UpdateSpec == UpdateInit /\ [][UpdateNext]_vars

\* C40, as the specification words it: the read and the write of
\* updateDraftData are atomic with respect to the other writers of the sheet:
\* once the row is written, a change another writer made to its Username,
\* Source, Date Added, Name or Bio cell around the read is still in the sheet.
C40_UpdateKeepsOtherWriters ==
  (update.written /\ update.edit # NoEdit)
    => sheet[update.rowIndex - 1][update.edit.cell] = update.edit.value

\* the row was read, another writer then changed its Username, and the write of
\* the whole row put the Username that was read back in its place
C40_Witness ==
  /\ pc = "done"
  /\ update.written
  /\ update.edit.cell = "username"
  /\ update.currentRow.username # update.edit.value
  /\ update.currentRow.username # ""
  /\ sheet[update.rowIndex - 1].username = update.currentRow.username



====
